---- MODULE Spec2Model ----
(***************************************************************************)
(* Cancellation flow of mm-cancel-flow-task: the Postgres store            *)
(* (subscriptions, cancellations, their triggers and SECURITY DEFINER      *)
(* RPCs) and the operations the client issues against it.                  *)
(*                                                                         *)
(* A row's position in its table's sequence is its creation order, so      *)
(* "ORDER BY created_at DESC LIMIT 1" is the row with the largest index.   *)
(* SQL NULL is the value NULL below; a NULL uuid is 0.                     *)
(***************************************************************************)
EXTENDS Integers, Sequences, FiniteSets, TLC

VARIABLES
  subscriptions,   \* table public.subscriptions: sequence of rows
  cancellations,   \* table public.cancellations: sequence of rows
  last,            \* outcome of the most recent call (what the caller got back)
  tieArms,         \* history: per user, <<count, arm>> for each choice made at tied counts
  txn,             \* in-flight assign_balanced_downsell transactions (per session)
  modal,           \* React state of the CancellationModal component
  inflight,        \* awaited calls of the modal's handlers that have not resumed yet
  sessions,        \* history: how many times the modal has been opened
  timer,           \* the setTimeout of the debounced autosave and the call it will make
  lastEdit         \* history: the last call of debouncedSaveDraft and the time since

wvars == <<modal, inflight, sessions, timer, lastEdit>>
vars == <<subscriptions, cancellations, last, tieArms, txn, modal, inflight, sessions,
          timer, lastEdit>>

---------------------------------------------------------------------------
(* Bounds *)

\* users seeded into the store (each with one active subscription)
NUsers == 5
\* other users whose first assignments interleave with the session user's calls
NOthers == 1
\* subscriptions created after the seed (re-subscription by the account service)
MaxNewSubs == 1
\* concurrent sessions, and the users whose calls overlap or are retried
NProcs == 2
NConcUsers == 3

Users == 1..NUsers
\* the user the wizard session was opened for (prop userId of CancellationModal)
userId == 1
Others == (userId + 1)..(userId + NOthers)
ConcUsers == 1..NConcUsers
Procs == 1..NProcs

---------------------------------------------------------------------------
(* Values *)

NULL == "NULL"
NoAuth == 0            \* auth.uid() IS NULL (anonymous / demo mode)
Variants == {"A", "B"}
Statuses == {"active", "pending_cancellation", "cancelled"}
AppliedOpts == {"0", "1-5", "6-20", "20+"}
InterviewOpts == {"0", "1-2", "3-5", "5+"}

Max(S) == CHOOSE x \in S : \A y \in S : y <= x

\* first byte of md5(user uuid) for the seeded uuids ...440001 to ...440009
md5_byte0 == <<255, 73, 126, 184, 19, 205, 37, 231, 203>>

\* tiebreak int := get_byte(decode(md5(p_user_id::text),'hex'),0) % 2
tiebreak(p_user_id) == md5_byte0[p_user_id] % 2

\* a subscriptions row as the seed inserts it (status DEFAULT 'active')
NewSubscription(u) == [user_id |-> u, status |-> "active"]

\* a cancellations row as INSERT (user_id, subscription_id[, downsell_variant])
\* leaves it: every other column NULL, accepted_downsell DEFAULT FALSE
NewCancellation(u, sub, variant) ==
  [ user_id           |-> u,
    subscription_id   |-> sub,
    downsell_variant  |-> variant,
    attributed_to_mm  |-> NULL,
    applied_count     |-> NULL,
    emailed_count     |-> NULL,
    interview_count   |-> NULL,
    reason            |-> NULL,
    accepted_downsell |-> FALSE,
    visa_has_lawyer   |-> NULL,
    visa_type         |-> NULL ]

\* the column CHECK constraints of table cancellations
CancellationChecks(row) ==
  /\ row.downsell_variant \in Variants \cup {NULL}
  /\ row.applied_count \in AppliedOpts \cup {NULL}
  /\ row.emailed_count \in AppliedOpts \cup {NULL}
  /\ row.interview_count \in InterviewOpts \cup {NULL}

\* NULLIF(x, '')
NULLIF(x) == IF x = "" THEN NULL ELSE x

---------------------------------------------------------------------------
(* Triggers *)

\* trg_cancellations_variant_guard, BEFORE UPDATE: TRUE = RETURN NEW, FALSE = RAISE
prevent_variant_change_v1(old, new) ==
  ~(new.downsell_variant # old.downsell_variant)

prevent_variant_change_off(old, new) == TRUE

prevent_variant_change(old, new) ==
  IF old.downsell_variant = NULL /\ new.downsell_variant # NULL THEN TRUE
  ELSE IF new.downsell_variant # old.downsell_variant THEN FALSE
  ELSE TRUE

subscription_status_transitions_v1 ==
  { <<"active", "pending_cancellation">>,
    <<"pending_cancellation", "cancelled">>,
    <<"active", "cancelled">> }

subscription_status_transitions_resub ==
  { <<"active", "pending_cancellation">>,
    <<"pending_cancellation", "cancelled">>,
    <<"pending_cancellation", "active">>,
    <<"active", "cancelled">>,
    <<"cancelled", "active">> }

\* rows seeded into table subscription_status_transitions
subscription_status_transitions ==
  { <<"active", "pending_cancellation">>,
    <<"pending_cancellation", "cancelled">>,
    <<"pending_cancellation", "active">>,
    <<"active", "cancelled">> }

enforce_subscription_status_transition_strict(old, new) ==
  <<old.status, new.status>> \in subscription_status_transitions

\* trg_subscriptions_status_guard, BEFORE UPDATE: TRUE = RETURN NEW, FALSE = RAISE
enforce_subscription_status_transition(old, new) ==
  IF new.status = old.status THEN TRUE
  ELSE <<old.status, new.status>> \in subscription_status_transitions

---------------------------------------------------------------------------
(* Row-level statements.  Each yields [ok, err, rows]; ok = FALSE is an    *)
(* exception, which aborts the enclosing transaction.                      *)

\* UPDATE public.subscriptions SET status = new WHERE id = i
UpdateSubscriptionRow(subs, i, new) ==
  IF i = 0 THEN [ok |-> TRUE, err |-> "", rows |-> subs]
  ELSE IF new \notin Statuses
    THEN [ok |-> FALSE, err |-> "check_violation", rows |-> subs]
  ELSE IF ~enforce_subscription_status_transition(subs[i], [subs[i] EXCEPT !.status = new])
    THEN [ok |-> FALSE, err |-> "invalid status transition", rows |-> subs]
  ELSE [ok |-> TRUE, err |-> "", rows |-> [subs EXCEPT ![i].status = new]]

\* UPDATE public.cancellations SET ... WHERE id = i, the row becoming new
UpdateCancellationRow(cans, i, new) ==
  IF i = 0 THEN [ok |-> TRUE, err |-> "", rows |-> cans]
  ELSE IF ~prevent_variant_change(cans[i], new)
    THEN [ok |-> FALSE, err |-> "downsell_variant is immutable", rows |-> cans]
  ELSE IF ~CancellationChecks(new)
    THEN [ok |-> FALSE, err |-> "check_violation", rows |-> cans]
  ELSE [ok |-> TRUE, err |-> "", rows |-> [cans EXCEPT ![i] = new]]

\* INSERT INTO public.cancellations (user_id, subscription_id, downsell_variant)
InsertCancellationRow(cans, row) ==
  IF ~CancellationChecks(row)
    THEN [ok |-> FALSE, err |-> "check_violation", rows |-> cans]
  ELSE [ok |-> TRUE, err |-> "", rows |-> Append(cans, row)]

LatestSubscription_oldest(subs, u) ==
  LET S == {i \in DOMAIN subs : subs[i].user_id = u}
  IN IF S = {} THEN 0 ELSE CHOOSE x \in S : \A y \in S : x <= y


\* SELECT s.id ... WHERE s.user_id = u ORDER BY s.created_at DESC, s.id DESC LIMIT 1
LatestSubscription(subs, u) ==
  LET S == {i \in DOMAIN subs : subs[i].user_id = u}
  IN IF S = {} THEN 0 ELSE Max(S)

LatestCancellation_none(cans, u) == 0

LatestCancellation_unassigned(cans, u) ==
  LET S == {i \in DOMAIN cans : cans[i].user_id = u /\ cans[i].downsell_variant = NULL}
  IN IF S = {} THEN 0 ELSE Max(S)

\* SELECT c.id ... WHERE c.user_id = u ORDER BY c.created_at DESC LIMIT 1
LatestCancellation(cans, u) ==
  LET S == {i \in DOMAIN cans : cans[i].user_id = u}
  IN IF S = {} THEN 0 ELSE Max(S)

\* COUNT(*) FILTER (WHERE c.downsell_variant = v)
CountVariant(cans, v) ==
  Cardinality({i \in DOMAIN cans : cans[i].downsell_variant = v})

\* CASE WHEN status <> 'cancelled' THEN 'pending_cancellation' ELSE status END
MarkPending(status) ==
  IF status # "cancelled" THEN "pending_cancellation" ELSE status

ChooseVariant_hash(cnt_a, cnt_b, tb) == IF tb = 0 THEN "A" ELSE "B"

ChooseVariant_majority(cnt_a, cnt_b, tb) ==
  IF cnt_a > cnt_b THEN "A"
  ELSE IF cnt_b > cnt_a THEN "B"
  ELSE IF tb = 0 THEN "A" ELSE "B"

ChooseVariant_parity(cnt_a, cnt_b, tb) ==
  IF cnt_a > cnt_b THEN "B"
  ELSE IF cnt_b > cnt_a THEN "A"
  ELSE IF (tb + cnt_a) % 2 = 0 THEN "A" ELSE "B"

\* IF cnt_a > cnt_b THEN 'B' ELSIF cnt_b > cnt_a THEN 'A' ELSE tiebreak
ChooseVariant(cnt_a, cnt_b, tb) ==
  IF cnt_a > cnt_b THEN "B"
  ELSE IF cnt_b > cnt_a THEN "A"
  ELSE IF tb = 0 THEN "A" ELSE "B"

---------------------------------------------------------------------------
(* RPCs (plpgsql, SECURITY DEFINER).  Each is one transaction: it yields   *)
(* the tables it leaves and what it returns; a RAISE rolls everything back.*)

Rollback(subs, cans, e) ==
  [ok |-> FALSE, err |-> e, subs |-> subs, cans |-> cans,
   cid |-> 0, variant |-> NULL, fresh |-> FALSE, tied |-> FALSE]

Return(subs, cans, cid, variant, fresh, tied) ==
  [ok |-> TRUE, err |-> "", subs |-> subs, cans |-> cans,
   cid |-> cid, variant |-> variant, fresh |-> fresh, tied |-> tied]

\* public.assign_balanced_downsell(p_user_id), auth.uid() = v_uid
assign_balanced_downsell(subs, cans, v_uid, p_user_id) ==
  IF v_uid # NoAuth /\ v_uid # p_user_id THEN Rollback(subs, cans, "forbidden")
  ELSE
    LET v_sub_id == LatestSubscription(subs, p_user_id)
        s1 == IF v_sub_id = 0 THEN UpdateSubscriptionRow(subs, 0, NULL)
              ELSE UpdateSubscriptionRow(subs, v_sub_id, MarkPending(subs[v_sub_id].status))
        found == LatestCancellation(cans, p_user_id)
        v_variant == IF found = 0 THEN NULL ELSE cans[found].downsell_variant
        c1 == IF found = 0
              THEN InsertCancellationRow(cans, NewCancellation(p_user_id, v_sub_id, NULL))
              ELSE [ok |-> TRUE, err |-> "", rows |-> cans]
        v_cid == IF found = 0 THEN Len(c1.rows) ELSE found
        cnt_a == CountVariant(c1.rows, "A")
        cnt_b == CountVariant(c1.rows, "B")
        chosen == ChooseVariant(cnt_a, cnt_b, tiebreak(p_user_id))
        c2 == IF v_variant = NULL
              THEN UpdateCancellationRow(c1.rows, v_cid,
                                         [c1.rows[v_cid] EXCEPT !.downsell_variant = chosen])
              ELSE [ok |-> TRUE, err |-> "", rows |-> c1.rows]
    IN IF ~s1.ok THEN Rollback(subs, cans, s1.err)
       ELSE IF ~c1.ok THEN Rollback(subs, cans, c1.err)
       ELSE IF ~c2.ok THEN Rollback(subs, cans, c2.err)
       ELSE Return(s1.rows, c2.rows, v_cid,
                   IF v_variant = NULL THEN chosen ELSE v_variant,
                   v_variant = NULL,
                   v_variant = NULL /\ cnt_a = cnt_b)

\* public.begin_cancellation(p_user_id, p_downsell_variant), auth.uid() = v_uid
begin_cancellation(subs, cans, v_uid, p_user_id, p_downsell_variant) ==
  IF v_uid # NoAuth /\ v_uid # p_user_id THEN Rollback(subs, cans, "forbidden")
  ELSE
    LET v_sub_id == LatestSubscription(subs, p_user_id)
        s1 == IF v_sub_id = 0 THEN UpdateSubscriptionRow(subs, 0, NULL)
              ELSE UpdateSubscriptionRow(subs, v_sub_id, MarkPending(subs[v_sub_id].status))
        found == LatestCancellation(cans, p_user_id)
        v_variant == IF found = 0 THEN NULL ELSE cans[found].downsell_variant
        c1 == IF found = 0
                THEN InsertCancellationRow(cans,
                       NewCancellation(p_user_id, v_sub_id, NULLIF(p_downsell_variant)))
              ELSE IF v_variant = NULL /\ p_downsell_variant # NULL
                THEN UpdateCancellationRow(cans, found,
                       [cans[found] EXCEPT !.downsell_variant = p_downsell_variant])
              ELSE [ok |-> TRUE, err |-> "", rows |-> cans]
        v_cid == IF found = 0 THEN Len(c1.rows) ELSE found
    IN IF ~s1.ok THEN Rollback(subs, cans, s1.err)
       ELSE IF ~c1.ok THEN Rollback(subs, cans, c1.err)
       ELSE Return(s1.rows, c1.rows, v_cid, c1.rows[v_cid].downsell_variant,
                   v_variant = NULL /\ c1.rows[v_cid].downsell_variant # NULL, FALSE)

accept_downsell_reactivate(subs, cans, v_uid, p_cancellation_id) ==
  IF v_uid # NoAuth /\ cans[p_cancellation_id].user_id # v_uid
    THEN Rollback(subs, cans, "forbidden")
  ELSE
    LET v_sub == cans[p_cancellation_id].subscription_id
        c1 == UpdateCancellationRow(cans, p_cancellation_id,
                [cans[p_cancellation_id] EXCEPT !.accepted_downsell = TRUE])
        s1 == IF v_sub # 0 /\ subs[v_sub].status = "pending_cancellation"
                THEN UpdateSubscriptionRow(subs, v_sub, "active")
              ELSE UpdateSubscriptionRow(subs, 0, NULL)
    IN IF ~c1.ok THEN Rollback(subs, cans, c1.err)
       ELSE IF ~s1.ok THEN Rollback(subs, cans, s1.err)
       ELSE Return(s1.rows, c1.rows, p_cancellation_id,
                   c1.rows[p_cancellation_id].downsell_variant, FALSE, FALSE)

\* public.accept_downsell(p_cancellation_id), auth.uid() = v_uid
accept_downsell(subs, cans, v_uid, p_cancellation_id) ==
  IF v_uid # NoAuth /\ cans[p_cancellation_id].user_id # v_uid
    THEN Rollback(subs, cans, "forbidden")
  ELSE
    LET c1 == UpdateCancellationRow(cans, p_cancellation_id,
                [cans[p_cancellation_id] EXCEPT !.accepted_downsell = TRUE])
    IN IF ~c1.ok THEN Rollback(subs, cans, c1.err)
       ELSE Return(subs, c1.rows, p_cancellation_id,
                   c1.rows[p_cancellation_id].downsell_variant, FALSE, FALSE)

\* public.save_found_job_answers(p_cancellation_id, p_attributed_to_mm, p_applied,
\*                               p_emailed, p_interview, p_reason)
save_found_job_answers(subs, cans, v_uid, p_cancellation_id, p) ==
  IF v_uid # NoAuth /\ cans[p_cancellation_id].user_id # v_uid
    THEN Rollback(subs, cans, "forbidden")
  ELSE
    LET c1 == UpdateCancellationRow(cans, p_cancellation_id,
                [cans[p_cancellation_id] EXCEPT
                   !.attributed_to_mm = p.p_attributed_to_mm,
                   !.applied_count    = NULLIF(p.p_applied),
                   !.emailed_count    = NULLIF(p.p_emailed),
                   !.interview_count  = NULLIF(p.p_interview),
                   !.reason           = NULLIF(p.p_reason)])
    IN IF ~c1.ok THEN Rollback(subs, cans, c1.err)
       ELSE Return(subs, c1.rows, p_cancellation_id,
                   c1.rows[p_cancellation_id].downsell_variant, FALSE, FALSE)

finalize_found_job_keep(subs, cans, v_uid, p_cancellation_id, p_visa_has_lawyer, p_visa_type) ==
  IF v_uid # NoAuth /\ cans[p_cancellation_id].user_id # v_uid
    THEN Rollback(subs, cans, "forbidden")
  ELSE
    LET c1 == UpdateCancellationRow(cans, p_cancellation_id,
                [cans[p_cancellation_id] EXCEPT
                   !.visa_has_lawyer = p_visa_has_lawyer,
                   !.visa_type       = NULLIF(p_visa_type)])
    IN IF ~c1.ok THEN Rollback(subs, cans, c1.err)
       ELSE Return(subs, c1.rows, p_cancellation_id,
                   c1.rows[p_cancellation_id].downsell_variant, FALSE, FALSE)

\* public.finalize_found_job(p_cancellation_id, p_visa_has_lawyer, p_visa_type)
finalize_found_job(subs, cans, v_uid, p_cancellation_id, p_visa_has_lawyer, p_visa_type) ==
  IF v_uid # NoAuth /\ cans[p_cancellation_id].user_id # v_uid
    THEN Rollback(subs, cans, "forbidden")
  ELSE
    LET v_sub == cans[p_cancellation_id].subscription_id
        c1 == UpdateCancellationRow(cans, p_cancellation_id,
                [cans[p_cancellation_id] EXCEPT
                   !.visa_has_lawyer = p_visa_has_lawyer,
                   !.visa_type       = NULLIF(p_visa_type)])
        s1 == UpdateSubscriptionRow(subs, v_sub, "cancelled")
    IN IF ~c1.ok THEN Rollback(subs, cans, c1.err)
       ELSE IF ~s1.ok THEN Rollback(subs, cans, s1.err)
       ELSE Return(s1.rows, c1.rows, p_cancellation_id,
                   c1.rows[p_cancellation_id].downsell_variant, FALSE, FALSE)

finalize_still_looking_open(subs, cans, v_uid, p_cancellation_id, p_reason) ==
  LET v_sub == cans[p_cancellation_id].subscription_id
      c1 == UpdateCancellationRow(cans, p_cancellation_id,
              [cans[p_cancellation_id] EXCEPT !.reason = NULLIF(p_reason)])
      s1 == UpdateSubscriptionRow(subs, v_sub, "cancelled")
  IN IF ~c1.ok THEN Rollback(subs, cans, c1.err)
     ELSE IF ~s1.ok THEN Rollback(subs, cans, s1.err)
     ELSE Return(s1.rows, c1.rows, p_cancellation_id,
                 c1.rows[p_cancellation_id].downsell_variant, FALSE, FALSE)

\* public.finalize_still_looking(p_cancellation_id, p_reason)
finalize_still_looking(subs, cans, v_uid, p_cancellation_id, p_reason) ==
  IF v_uid # NoAuth /\ cans[p_cancellation_id].user_id # v_uid
    THEN Rollback(subs, cans, "forbidden")
  ELSE
    LET v_sub == cans[p_cancellation_id].subscription_id
        c1 == UpdateCancellationRow(cans, p_cancellation_id,
                [cans[p_cancellation_id] EXCEPT !.reason = NULLIF(p_reason)])
        s1 == UpdateSubscriptionRow(subs, v_sub, "cancelled")
    IN IF ~c1.ok THEN Rollback(subs, cans, c1.err)
       ELSE IF ~s1.ok THEN Rollback(subs, cans, s1.err)
       ELSE Return(s1.rows, c1.rows, p_cancellation_id,
                   c1.rows[p_cancellation_id].downsell_variant, FALSE, FALSE)

---------------------------------------------------------------------------
(* Inputs *)

\* auth.uid() of a call about user u: anonymous, u itself, or another signed-in user
Other(u) == (u % NUsers) + 1
CallersFor(u) == {NoAuth, u, Other(u)}

\* p_downsell_variant as a caller of begin_cancellation may pass it
BeginArgs == {NULL, "", "A", "B"}

\* parameter tuples of save_found_job_answers: a partial draft and a full one
DraftArgs ==
  { [p_attributed_to_mm |-> NULL, p_applied |-> "1-5", p_emailed |-> "",
     p_interview |-> "", p_reason |-> NULL],
    [p_attributed_to_mm |-> "true", p_applied |-> "1-5", p_emailed |-> "0",
     p_interview |-> "1-2", p_reason |-> "Found it through a friend at work"] }

VisaArgs == { <<"true", "H-1B">>, <<"false", "">> }

ReasonArgs == { "Too expensive; willing to pay $15", "" }

---------------------------------------------------------------------------
(* Text: a string of the UI is a sequence of one-character strings *)

MAX_TEXT_LEN == 1000
MIN_FEEDBACK == 25

Min(a, b) == IF a <= b THEN a ELSE b

\* the characters \s matches and trim() strips, among those the model types
IsSpace(c) == c \in {" ", "\t", "\n", "\r", "\f"}

UpperCase == <<"A", "B", "C", "D", "E", "F", "G", "H", "I", "J", "K", "L", "M",
               "N", "O", "P", "Q", "R", "S", "T", "U", "V", "W", "X", "Y", "Z">>
LowerCase == <<"a", "b", "c", "d", "e", "f", "g", "h", "i", "j", "k", "l", "m",
               "n", "o", "p", "q", "r", "s", "t", "u", "v", "w", "x", "y", "z">>

\* the i flag of a regular expression: letters compare by their lower case
ToLower == [c \in {UpperCase[k] : k \in 1..26} |->
              LowerCase[CHOOSE k \in 1..26 : UpperCase[k] = c]]
Lower(c) == IF c \in DOMAIN ToLower THEN ToLower[c] ELSE c

\* the wire form of a text: the characters joined into one string
RECURSIVE Str(_)
Str(t) == IF t = <<>> THEN "" ELSE Head(t) \o Str(Tail(t))

\* n copies of the character c
Rep(c, n) == [k \in 1..n |-> c]

First(S) == CHOOSE m \in S : \A k \in S : m <= k

\* input.replace(/<[^>]*>/g, ''): from each '<' up to the first '>' after it
RECURSIVE StripTags(_)
StripTags(t) ==
  LET opens == {p \in 1..Len(t) : t[p] = "<" /\ \E q \in (p + 1)..Len(t) : t[q] = ">"}
  IN IF opens = {} THEN t
     ELSE LET p == First(opens)
              q == First({q \in (p + 1)..Len(t) : t[q] = ">"})
          IN SubSeq(t, 1, p - 1) \o StripTags(SubSeq(t, q + 1, Len(t)))

\* t.replace(/pat/gi, ''): leftmost matches, one pass, never rescanning the result
RECURSIVE RemoveAll(_, _)
RemoveAll(t, pat) ==
  LET hits == {m \in 1..(Len(t) - Len(pat) + 1) :
                 \A k \in 1..Len(pat) : Lower(t[m + k - 1]) = pat[k]}
  IN IF hits = {} THEN t
     ELSE LET m == First(hits)
          IN SubSeq(t, 1, m - 1) \o RemoveAll(SubSeq(t, m + Len(pat), Len(t)), pat)

javascript_scheme == <<"j", "a", "v", "a", "s", "c", "r", "i", "p", "t", ":">>
data_html_scheme ==
  <<"d", "a", "t", "a", ":", "t", "e", "x", "t", "/", "h", "t", "m", "l">>

\* t without its leading white space
DropSpaces(t) ==
  LET ink == {i \in 1..Len(t) : ~IsSpace(t[i])}
  IN IF ink = {} THEN <<>> ELSE SubSeq(t, First(ink), Len(t))

\* t.replace(/\s+/g, ' ')
RECURSIVE CollapseSpaces(_)
CollapseSpaces(t) ==
  LET blanks == {i \in 1..Len(t) : IsSpace(t[i])}
  IN IF blanks = {} THEN t
     ELSE LET i == First(blanks)
          IN SubSeq(t, 1, i - 1) \o <<" ">>
               \o CollapseSpaces(DropSpaces(SubSeq(t, i, Len(t))))

\* String.prototype.trim
Trim(t) ==
  LET ink == {i \in 1..Len(t) : ~IsSpace(t[i])}
      kni == {j \in 1..Len(t) : ~IsSpace(t[Len(t) + 1 - j])}
  IN IF ink = {} THEN <<>> ELSE SubSeq(t, First(ink), Len(t) + 1 - First(kni))

\* t.slice(0, n)
Slice(t, n) == SubSeq(t, 1, Min(Len(t), n))

\* sanitizeText(input)
sanitizeText(input) ==
  IF input = <<>> THEN <<>>
  ELSE LET noTags == StripTags(input)
           noSchemes == RemoveAll(RemoveAll(noTags, javascript_scheme),
                                  data_html_scheme)
       IN Slice(Trim(CollapseSpaces(noSchemes)), MAX_TEXT_LEN)

---------------------------------------------------------------------------
(* State *)

\* resetModal(): every piece of the component's state back to its useState default;
\* isOpen is the parent's prop. A null boolean is NULL, a null id is 0.
resetModal(m) ==
  [isOpen           |-> m.isOpen,
   currentStep      |-> "initial",
   selectedOption   |-> NULL,
   feedback         |-> <<>>,
   attributedToMM   |-> NULL,
   appliedCount     |-> "",
   emailedCount     |-> "",
   interviewCount   |-> "",
   visaHasLawyer    |-> NULL,
   visaType         |-> <<>>,
   downsellVariant  |-> NULL,
   acceptedDownsell |-> FALSE,
   cancellationId   |-> 0,
   abLoading        |-> FALSE,
   reasonChoice     |-> NULL,
   reasonText       |-> <<>>,
   maxPrice         |-> <<>>]

\* a draft payload without keys
NoDraft ==
  [attributed_to_mm |-> "absent", applied_count |-> "absent", emailed_count |-> "absent",
   interview_count |-> "absent", downsell_variant |-> "absent",
   accepted_downsell |-> "absent", visa_has_lawyer |-> "absent", visa_type |-> "absent",
   reason |-> "absent"]

\* no timeout set
IdleTimer == [armed |-> FALSE, cid |-> 0, payload |-> NoDraft, elapsed |-> 0]

\* what a call leaves in last: its name and arguments, whether it succeeded, what
\* it returned, whether it assigned an arm (fresh), and whether it repeats the
\* call before it (again: same operation and target, and that call succeeded)
Outcome(op, target, val, r) ==
  [op |-> op, ok |-> r.ok, err |-> r.err, target |-> target, val |-> val,
   cid |-> r.cid, variant |-> r.variant, fresh |-> r.fresh,
   again |-> (last.op = op /\ last.target = target /\ last.ok)]

IdleTxn ==
  [pc |-> "idle", v_uid |-> NoAuth, p_user_id |-> 0, v_sub_id |-> 0, status |-> NULL,
   v_cid |-> 0, inserted |-> FALSE, v_variant |-> NULL, chosen |-> NULL,
   cnt_a |-> 0, cnt_b |-> 0]

Init ==
  /\ subscriptions = [u \in 1..NUsers |-> NewSubscription(u)]
  /\ cancellations = <<>>
  /\ last = [op |-> "init", ok |-> TRUE, err |-> "", target |-> 0, val |-> NULL,
             cid |-> 0, variant |-> NULL, fresh |-> FALSE, again |-> FALSE]
  /\ tieArms = [u \in Users |-> {}]
  /\ txn = [p \in Procs |-> IdleTxn]
  /\ modal = resetModal([isOpen |-> FALSE])
  /\ inflight = <<>>
  /\ sessions = 0
  /\ timer = IdleTimer
  /\ lastEdit = IdleTimer

\* a whole transaction applied to the store
Commit(op, target, val, r) ==
  /\ subscriptions' = r.subs
  /\ cancellations' = r.cans
  /\ last' = Outcome(op, target, val, r)

---------------------------------------------------------------------------
(* Operations, each call one atomic transaction *)

\* assignBalancedDownsell(u): the RPC, then the check of what it returned
AssignArm(v_uid, u) ==
  LET r == assign_balanced_downsell(subscriptions, cancellations, v_uid, u)
      got == r.ok /\ r.cid # 0 /\ r.variant \in Variants
  IN /\ Commit("assign", u, NULL,
               IF r.ok /\ ~got
               THEN [r EXCEPT !.ok = FALSE, !.err = "assign_balanced_downsell returned no data"]
               ELSE r)
     /\ tieArms' = IF r.ok /\ r.tied
                   THEN [tieArms EXCEPT ![u] =
                           @ \cup {<<CountVariant(cancellations, "A"), r.variant>>}]
                   ELSE tieArms
     /\ UNCHANGED <<txn, wvars>>

\* the same call when the store fails before the transaction commits: the
\* error is thrown to the caller, nothing is persisted, the caller may retry
AssignArmAborted(v_uid, u) ==
  LET r == assign_balanced_downsell(subscriptions, cancellations, v_uid, u)
  IN /\ r.ok /\ r.fresh
     /\ last' = Outcome("assign", u, NULL,
                        Rollback(subscriptions, cancellations, "transient store error"))
     /\ tieArms' = IF r.tied
                   THEN [tieArms EXCEPT ![u] =
                           @ \cup {<<CountVariant(cancellations, "A"), r.variant>>}]
                   ELSE tieArms
     /\ UNCHANGED <<subscriptions, cancellations, txn, wvars>>

BeginCancellation(v_uid, u, variant) ==
  /\ Commit("begin", u, variant,
            begin_cancellation(subscriptions, cancellations, v_uid, u, variant))
  /\ UNCHANGED <<tieArms, txn, wvars>>

AcceptDownsell(v_uid, cancellationId) ==
  /\ cancellationId \in DOMAIN cancellations
  /\ Commit("accept_downsell", cancellationId, NULL,
            accept_downsell(subscriptions, cancellations, v_uid, cancellationId))
  /\ UNCHANGED <<tieArms, txn, wvars>>

SaveFoundJobAnswers(v_uid, cancellationId, p) ==
  /\ cancellationId \in DOMAIN cancellations
  /\ Commit("save_draft", cancellationId, NULL,
            save_found_job_answers(subscriptions, cancellations, v_uid, cancellationId, p))
  /\ UNCHANGED <<tieArms, txn, wvars>>

FinalizeFoundJob(v_uid, cancellationId, hasLawyer, visaType) ==
  /\ cancellationId \in DOMAIN cancellations
  /\ Commit("finalize_found_job", cancellationId, <<hasLawyer, visaType>>,
            finalize_found_job(subscriptions, cancellations, v_uid, cancellationId,
                               hasLawyer, visaType))
  /\ UNCHANGED <<tieArms, txn, wvars>>

FinalizeStillLooking(v_uid, cancellationId, reason) ==
  /\ cancellationId \in DOMAIN cancellations
  /\ Commit("finalize_still_looking", cancellationId, reason,
            finalize_still_looking(subscriptions, cancellations, v_uid, cancellationId,
                                   reason))
  /\ UNCHANGED <<tieArms, txn, wvars>>

\* a plain UPDATE of cancellations.downsell_variant reaching row i
UpdateCancellationVariant(i, variant) ==
  /\ i \in DOMAIN cancellations
  /\ LET c == UpdateCancellationRow(cancellations, i,
                [cancellations[i] EXCEPT !.downsell_variant = variant])
     IN Commit("update_cancellation", i, variant,
               IF c.ok THEN Return(subscriptions, c.rows, i, c.rows[i].downsell_variant,
                                   FALSE, FALSE)
               ELSE Rollback(subscriptions, cancellations, c.err))
  /\ UNCHANGED <<tieArms, txn, wvars>>

\* a plain UPDATE of subscriptions.status reaching row i
UpdateSubscriptionStatus(i, status) ==
  /\ i \in DOMAIN subscriptions
  /\ LET c == UpdateSubscriptionRow(subscriptions, i, status)
     IN Commit("update_subscription", i, status,
               IF c.ok THEN Return(c.rows, cancellations, 0, NULL, FALSE, FALSE)
               ELSE Rollback(subscriptions, cancellations, c.err))
  /\ UNCHANGED <<tieArms, txn, wvars>>

\* INSERT INTO subscriptions (user_id, monthly_price, status): a later subscription
CreateSubscription(u) ==
  /\ Len(subscriptions) < NUsers + MaxNewSubs
  /\ Commit("create_subscription", u, NULL,
            Return(Append(subscriptions, NewSubscription(u)), cancellations,
                   0, NULL, FALSE, FALSE))
  /\ UNCHANGED <<tieArms, txn, wvars>>

---------------------------------------------------------------------------
(* Specifications *)

\* the session user's rows
OwnCancellations == {i \in DOMAIN cancellations : cancellations[i].user_id = userId}
OwnSubscriptions == {i \in DOMAIN subscriptions : subscriptions[i].user_id = userId}

\* first-time (and repeated) assignments only, by any seeded user, one at a time
NextAssign ==
  \E u \in Users : \E v_uid \in CallersFor(u) : AssignArm(v_uid, u)

SpecAssign == Init /\ [][NextAssign]_vars

\* assignments that may fail before they commit and be retried later
NextRetry ==
  \/ \E u \in ConcUsers : AssignArm(NoAuth, u)
  \/ \E u \in ConcUsers : AssignArmAborted(NoAuth, u)

SpecRetry == Init /\ [][NextRetry]_vars

\* the subscription lifecycle: assignment, finalization, status updates, re-subscription
NextSubs ==
  \/ \E v_uid \in CallersFor(userId) : AssignArm(v_uid, userId)
  \/ \E i \in OwnCancellations, a \in VisaArgs :
        FinalizeFoundJob(NoAuth, i, a[1], a[2])
  \/ \E i \in OwnCancellations, r \in ReasonArgs :
        FinalizeStillLooking(NoAuth, i, r)
  \/ \E i \in OwnSubscriptions, s \in Statuses :
        UpdateSubscriptionStatus(i, s)
  \/ CreateSubscription(userId)

SpecSubs == Init /\ [][NextSubs]_vars

\* every operation of the store about the session user's records, one call at a
\* time, among first assignments of other users
Next ==
  \/ \E v_uid \in CallersFor(userId) : AssignArm(v_uid, userId)
  \/ \E u \in Others : AssignArm(u, u)
  \/ \E v_uid \in CallersFor(userId), v \in BeginArgs :
        BeginCancellation(v_uid, userId, v)
  \/ \E i \in OwnCancellations, v_uid \in CallersFor(userId) :
        AcceptDownsell(v_uid, i)
  \/ \E i \in OwnCancellations, v_uid \in CallersFor(userId), p \in DraftArgs :
        SaveFoundJobAnswers(v_uid, i, p)
  \/ \E i \in OwnCancellations, v_uid \in CallersFor(userId), a \in VisaArgs :
        FinalizeFoundJob(v_uid, i, a[1], a[2])
  \/ \E i \in OwnCancellations, v_uid \in CallersFor(userId), r \in ReasonArgs :
        FinalizeStillLooking(v_uid, i, r)
  \/ \E i \in OwnCancellations, v \in Variants \cup {NULL} :
        UpdateCancellationVariant(i, v)
  \/ \E i \in OwnSubscriptions, s \in Statuses :
        UpdateSubscriptionStatus(i, s)

Spec == Init /\ [][Next]_vars

---------------------------------------------------------------------------
(* assign_balanced_downsell under concurrent sessions.  The function takes  *)
(* no lock beyond the row locks of its UPDATEs and runs READ COMMITTED:     *)
(* each statement sees the rows committed when it starts, plus the          *)
(* transaction's own writes, and its writes reach others at commit.         *)

SubscriptionLocked_none(p, i) == FALSE

\* the row lock an uncommitted UPDATE holds on a subscriptions row
SubscriptionLocked(p, i) ==
  \E q \in Procs \ {p} : txn[q].pc # "idle" /\ txn[q].v_sub_id = i

\* the row lock an uncommitted UPDATE holds on a committed cancellations row
CancellationLocked(p, i) ==
  \E q \in Procs \ {p} :
    txn[q].pc = "counted" /\ ~txn[q].inserted /\ txn[q].v_cid = i /\ txn[q].chosen # NULL

Failed(u, e) ==
  Outcome("assign", u, NULL, Rollback(subscriptions, cancellations, e))

\* auth check, SELECT latest subscription, UPDATE subscriptions (mark pending)
ConcBegin(p, v_uid, u) ==
  /\ txn[p].pc = "idle"
  /\ IF v_uid # NoAuth /\ v_uid # u
     THEN /\ last' = Failed(u, "forbidden")
          /\ UNCHANGED txn
     ELSE LET v_sub_id == LatestSubscription(subscriptions, u)
              new == IF v_sub_id = 0 THEN NULL
                     ELSE MarkPending(subscriptions[v_sub_id].status)
              s1 == UpdateSubscriptionRow(subscriptions, v_sub_id, new)
          IN /\ v_sub_id # 0 => ~SubscriptionLocked(p, v_sub_id)
             /\ IF s1.ok
                THEN /\ txn' = [txn EXCEPT ![p] = [IdleTxn EXCEPT
                                  !.pc = "begun", !.p_user_id = u,
                                  !.v_sub_id = v_sub_id, !.status = new]]
                     /\ UNCHANGED last
                ELSE /\ last' = Failed(u, s1.err)
                     /\ UNCHANGED txn
  /\ UNCHANGED <<subscriptions, cancellations, tieArms, wvars>>

\* SELECT latest cancellation of the user; INSERT one when there is none
ConcSelect(p) ==
  /\ txn[p].pc = "begun"
  /\ LET found == LatestCancellation(cancellations, txn[p].p_user_id)
     IN txn' = [txn EXCEPT ![p].pc = "selected",
                           ![p].v_cid = found,
                           ![p].inserted = (found = 0),
                           ![p].v_variant = IF found = 0 THEN NULL
                                            ELSE cancellations[found].downsell_variant]
  /\ UNCHANGED <<subscriptions, cancellations, last, tieArms, wvars>>

\* IF v_variant IS NULL: SELECT COUNT(*) FILTER ..., choose, UPDATE cancellations
ConcCount(p) ==
  /\ txn[p].pc = "selected"
  /\ IF txn[p].v_variant # NULL
     THEN /\ txn' = [txn EXCEPT ![p].pc = "counted"]
          /\ UNCHANGED <<last, tieArms>>
     ELSE LET t == txn[p]
              cnt_a == CountVariant(cancellations, "A")
              cnt_b == CountVariant(cancellations, "B")
              chosen == ChooseVariant(cnt_a, cnt_b, tiebreak(t.p_user_id))
              c2 == IF t.inserted THEN [ok |-> TRUE, err |-> ""]
                    ELSE UpdateCancellationRow(cancellations, t.v_cid,
                           [cancellations[t.v_cid] EXCEPT !.downsell_variant = chosen])
          IN /\ ~t.inserted => ~CancellationLocked(p, t.v_cid)
             /\ IF c2.ok
                THEN /\ txn' = [txn EXCEPT ![p].pc = "counted", ![p].chosen = chosen,
                                           ![p].cnt_a = cnt_a, ![p].cnt_b = cnt_b]
                     /\ tieArms' = IF cnt_a = cnt_b
                                   THEN [tieArms EXCEPT ![t.p_user_id] =
                                           @ \cup {<<cnt_a, chosen>>}]
                                   ELSE tieArms
                     /\ UNCHANGED last
                ELSE /\ txn' = [txn EXCEPT ![p] = IdleTxn]
                     /\ last' = Failed(t.p_user_id, c2.err)
                     /\ UNCHANGED tieArms
  /\ UNCHANGED <<subscriptions, cancellations, wvars>>

\* RETURN QUERY and COMMIT: the transaction's writes reach the tables
ConcCommit(p) ==
  /\ txn[p].pc = "counted"
  /\ LET t == txn[p]
         subs1 == IF t.v_sub_id = 0 THEN subscriptions
                  ELSE [subscriptions EXCEPT ![t.v_sub_id].status = t.status]
         cans1 == IF t.inserted
                    THEN Append(cancellations,
                                NewCancellation(t.p_user_id, t.v_sub_id, t.chosen))
                  ELSE IF t.chosen # NULL
                    THEN [cancellations EXCEPT ![t.v_cid].downsell_variant = t.chosen]
                  ELSE cancellations
         v_cid == IF t.inserted THEN Len(cans1) ELSE t.v_cid
     IN /\ subscriptions' = subs1
        /\ cancellations' = cans1
        /\ last' = Outcome("assign", t.p_user_id, NULL,
                           Return(subs1, cans1, v_cid, cans1[v_cid].downsell_variant,
                                  t.chosen # NULL, FALSE))
  /\ txn' = [txn EXCEPT ![p] = IdleTxn]
  /\ UNCHANGED <<tieArms, wvars>>

NextConc ==
  \/ \E p \in Procs, u \in ConcUsers : \E v_uid \in CallersFor(u) : ConcBegin(p, v_uid, u)
  \/ \E p \in Procs : ConcSelect(p)
  \/ \E p \in Procs : ConcCount(p)
  \/ \E p \in Procs : ConcCommit(p)

SpecConc == Init /\ [][NextConc]_vars

---------------------------------------------------------------------------
(* The CancellationModal component: one session of userId, calls made         *)
(* without a signed-in identity (the client keeps no auth session)            *)

MaxInflight == 2
MaxSessions == 2

\* the wait of debouncedSaveDraft, and the step in which the model lets time pass
DEBOUNCE_MS == 600
TickMs == 300

Steps == {"initial", "job-status", "downsell", "downsell-accepted", "using",
          "reasons", "feedback", "confirmation", "completed"}

\* what the user types into the feedback textarea: 24 and 25 plain characters,
\* and 25 raw characters of which a tag takes three
FeedbackInputs ==
  { Rep("x", MIN_FEEDBACK - 1),
    Rep("x", MIN_FEEDBACK),
    <<"<", "b", ">">> \o Rep("x", MIN_FEEDBACK - 3) }

ReasonChoices == {"too_expensive", "other"}
\* a free-text reason of 25 characters inside a tag
ReasonTextInputs == { <<"<", "b", ">">> \o Rep("y", MIN_FEEDBACK) \o <<"<", "/", "b", ">">> }
MaxPriceInputs == { <<"1", "5">> }
VisaTypeInputs == { <<"H", "-", "1", "B">> }

too_expensive == <<"T", "o", "o", " ", "e", "x", "p", "e", "n", "s", "i", "v", "e">>
willing_to_pay ==
  <<";", " ", "w", "i", "l", "l", "i", "n", "g", " ", "t", "o", " ", "p", "a", "y",
    " ", "$">>

ComposeReason_text(m) == m.reasonText

\* reasonChoice === 'too_expensive'
\*   ? (maxPrice ? `Too expensive; willing to pay $${maxPrice}` : 'Too expensive')
\*   : reasonText
ComposeReason(m) ==
  IF m.reasonChoice = "too_expensive"
    THEN IF m.maxPrice # <<>> THEN too_expensive \o willing_to_pay \o m.maxPrice
         ELSE too_expensive
  ELSE m.reasonText

\* free texts around the minimum length: 24 and 25 characters, and 25 of which
\* 22 are left by sanitizeText
ReasonGateInputs ==
  { Rep("y", MIN_FEEDBACK - 1), Rep("y", MIN_FEEDBACK),
    <<"<", "b", ">">> \o Rep("y", MIN_FEEDBACK - 3) }

\* visa types: a tag alone, of which sanitizeText leaves nothing, and H-1B
VisaGateInputs == { <<"<", "b", ">">>, <<"H", "-", "1", "B">> }

\* every text the session can send to the store
SentTexts ==
  {sanitizeText(t) : t \in FeedbackInputs \cup ReasonTextInputs \cup ReasonGateInputs
                            \cup VisaTypeInputs \cup VisaGateInputs}
    \cup {sanitizeText(too_expensive)}
    \cup {sanitizeText(too_expensive \o willing_to_pay \o x) : x \in MaxPriceInputs}

\* a TEXT column read back into the UI
TextOf == [str \in {Str(t) : t \in SentTexts} |-> CHOOSE t \in SentTexts : Str(t) = str]
Chars(str) == TextOf[str]

\* buildDraftPayload(): the keys it sets are those whose value is not "absent"
buildDraftPayload(m) ==
  [attributed_to_mm  |-> IF m.attributedToMM \in {"true", "false"}
                           THEN m.attributedToMM ELSE "absent",
   applied_count     |-> IF m.appliedCount # "" THEN m.appliedCount ELSE "absent",
   emailed_count     |-> IF m.emailedCount # "" THEN m.emailedCount ELSE "absent",
   interview_count   |-> IF m.interviewCount # "" THEN m.interviewCount ELSE "absent",
   downsell_variant  |-> IF m.downsellVariant \in Variants
                           THEN m.downsellVariant ELSE "absent",
   accepted_downsell |-> IF m.acceptedDownsell \in BOOLEAN
                           THEN (IF m.acceptedDownsell THEN "true" ELSE "false")
                           ELSE "absent",
   visa_has_lawyer   |-> IF m.visaHasLawyer \in {"true", "false"}
                           THEN m.visaHasLawyer ELSE "absent",
   visa_type         |-> IF m.visaType # <<>> THEN Str(sanitizeText(m.visaType))
                           ELSE "absent",
   reason            |-> IF m.reasonChoice # NULL
                              /\ (m.reasonChoice = "too_expensive" \/ m.reasonText # <<>>)
                           THEN Str(sanitizeText(ComposeReason(m)))
                           ELSE "absent"]

\* Object.keys(payload).length
PayloadKeys(payload) == {k \in DOMAIN payload : payload[k] # "absent"}

\* the payload handleFeedbackSubmit builds from the found-job answers
FeedbackPayload(m) ==
  [attributed_to_mm |-> m.attributedToMM,
   applied_count    |-> m.appliedCount,
   emailed_count    |-> m.emailedCount,
   interview_count  |-> m.interviewCount,
   reason           |-> IF sanitizeText(m.feedback) # <<>>
                          THEN Str(sanitizeText(m.feedback)) ELSE "absent"]

\* saveFoundJobAnswersRpc(cancellationId, payload): the five answer keys of the
\* payload as the parameters of save_found_job_answers; an absent or empty bucket
\* is null, the reason is trimmed and null when empty or absent
saveFoundJobAnswersRpc(subs, cans, cancellationId, payload) ==
  save_found_job_answers(subs, cans, NoAuth, cancellationId,
    [p_attributed_to_mm |-> IF payload.attributed_to_mm = "absent" THEN NULL
                            ELSE payload.attributed_to_mm,
     p_applied   |-> IF payload.applied_count \in {"absent", ""} THEN NULL
                     ELSE payload.applied_count,
     p_emailed   |-> IF payload.emailed_count \in {"absent", ""} THEN NULL
                     ELSE payload.emailed_count,
     p_interview |-> IF payload.interview_count \in {"absent", ""} THEN NULL
                     ELSE payload.interview_count,
     p_reason    |-> IF payload.reason \in {"absent", ""} THEN NULL
                     ELSE payload.reason])

\* prefillFromCancellation(row): full is FALSE for the answers-only row of
\* fetchCancellationAnswers, which carries neither the arm nor accepted_downsell
prefillFromCancellation(m, row, full) ==
  LET r == sanitizeText(Chars(row.reason))
  IN
  [m EXCEPT
     !.attributedToMM   = row.attributed_to_mm,
     !.appliedCount     = IF row.applied_count \in AppliedOpts THEN row.applied_count ELSE @,
     !.emailedCount     = IF row.emailed_count \in AppliedOpts THEN row.emailed_count ELSE @,
     !.interviewCount   = IF row.interview_count \in InterviewOpts
                            THEN row.interview_count ELSE @,
     !.acceptedDownsell = IF full THEN row.accepted_downsell ELSE @,
     !.feedback         = IF row.reason # NULL THEN r ELSE @,
     !.reasonText       = IF row.reason # NULL THEN r ELSE @,
     !.visaHasLawyer    = row.visa_has_lawyer,
     !.visaType         = IF row.visa_type # NULL THEN Chars(row.visa_type) ELSE @,
     !.downsellVariant  = IF full /\ row.downsell_variant \in Variants
                            THEN row.downsell_variant ELSE @]

\* a call awaited by a handler or an effect: whether it succeeded (ok, TRUE where
\* the code after the await does not look), the record it names (cid) and what
\* the code after the await needs (arg). A fetch reads the store when it returns.
Pending(kind, ok, cid, arg) ==
  [kind |-> kind, ok |-> ok, cid |-> cid, arg |-> arg]

debounce_keep(t, cid, payload) ==
  [armed |-> TRUE, cid |-> cid, payload |-> payload,
   elapsed |-> IF t.armed THEN t.elapsed ELSE 0]

\* debounce(fn, wait): a call clears the timeout and sets a new one for its own
\* arguments
debounce(t, cid, payload) ==
  [armed |-> TRUE, cid |-> cid, payload |-> payload, elapsed |-> 0]

\* the dependencies of the autosave effect
AutosaveDeps(m) ==
  <<m.cancellationId, m.attributedToMM, m.appliedCount, m.emailedCount, m.interviewCount,
    m.downsellVariant, m.acceptedDownsell, m.reasonChoice, m.reasonText, m.maxPrice,
    m.visaHasLawyer, m.visaType>>

\* the autosave effect: a change of a dependency, with a record and a payload
\* that has keys, calls debouncedSaveDraft(cancellationId, payload)
AutosaveEffect(m2) ==
  IF AutosaveDeps(m2) # AutosaveDeps(modal) /\ m2.cancellationId # 0
       /\ PayloadKeys(buildDraftPayload(m2)) # {}
    THEN /\ timer' = debounce(timer, m2.cancellationId, buildDraftPayload(m2))
         /\ lastEdit' = [armed |-> TRUE, cid |-> m2.cancellationId,
                         payload |-> buildDraftPayload(m2), elapsed |-> 0]
  ELSE UNCHANGED <<timer, lastEdit>>

\* the effect on [cancellationId, currentStep]: entering the using step with a
\* record re-fetches its answers
UsingStepEffect(m2, q2) ==
  /\ modal' = m2
  /\ sessions' = IF m2.isOpen /\ ~modal.isOpen THEN sessions + 1 ELSE sessions
  /\ AutosaveEffect(m2)
  /\ IF m2.cancellationId # 0 /\ m2.currentStep = "using"
        /\ <<m2.cancellationId, m2.currentStep>> # <<modal.cancellationId, modal.currentStep>>
       THEN inflight' = Append(q2, Pending("answers", TRUE, m2.cancellationId, NULL))
     ELSE inflight' = q2
  /\ Len(inflight') <= MaxInflight

\* a button's call has not returned yet; the user waits for it before using
\* another control, except the close button
Busy == \E i \in DOMAIN inflight : inflight[i].kind \notin {"latest", "answers"}
Closing == \E i \in DOMAIN inflight : inflight[i].kind = "close"
Ready == modal.isOpen /\ ~Busy

\* a handler that calls nothing
Local(m2) ==
  /\ UNCHANGED <<subscriptions, cancellations, last, tieArms, txn>>
  /\ UsingStepEffect(m2, inflight)

\* a remote call that does not get through: the client throws
Unreachable == Rollback(subscriptions, cancellations, "network error")

\* the parent shows the modal; the effect on [isOpen, userId] fetches the latest
\* cancellation
Open ==
  /\ ~modal.isOpen
  /\ sessions < MaxSessions
  /\ UNCHANGED <<subscriptions, cancellations, last, tieArms, txn>>
  /\ UsingStepEffect([modal EXCEPT !.isOpen = TRUE],
                     Append(inflight, Pending("latest", TRUE, 0, NULL)))

AfterSelect_offer(option, variant) ==
  IF option = "found-job" THEN "job-status" ELSE "downsell"

\* step after the initial choice
AfterSelect(option, variant) ==
  IF option = "found-job" THEN "job-status"
  ELSE IF variant = "B" THEN "downsell" ELSE "using"

handleOptionSelect(option) ==
  /\ Ready /\ modal.currentStep = "initial" /\ ~modal.abLoading
  /\ LET m1 == [modal EXCEPT !.selectedOption = option]
     IN IF modal.cancellationId # 0 /\ modal.downsellVariant \in Variants
          THEN Local([m1 EXCEPT !.currentStep = AfterSelect(option, modal.downsellVariant)])
        ELSE \E reached \in BOOLEAN :
          LET r0 == assign_balanced_downsell(subscriptions, cancellations, NoAuth, userId)
              r == IF reached THEN r0 ELSE Unreachable
          IN /\ Commit("assign", userId, NULL, r)
             /\ tieArms' = IF r.ok /\ r.tied
                           THEN [tieArms EXCEPT ![userId] =
                                   @ \cup {<<CountVariant(cancellations, "A"), r.variant>>}]
                           ELSE tieArms
             /\ UNCHANGED txn
             /\ UsingStepEffect([m1 EXCEPT !.abLoading = TRUE],
                  Append(inflight,
                         Pending("select", r.ok /\ r.cid # 0 /\ r.variant \in Variants,
                                 r.cid, <<option, r.variant>>)))

showBack_terminal(m) == m.currentStep \notin {"initial", "completed"}

\* the back button is rendered
showBack(m) == m.currentStep \notin {"initial", "completed", "downsell-accepted"}

handleBack_offer ==
  /\ Ready
  /\ showBack(modal)
  /\ Local([modal EXCEPT !.currentStep =
       CASE @ = "using" -> IF ~modal.acceptedDownsell THEN "downsell" ELSE "initial"
         [] @ = "job-status" -> "initial"
         [] @ = "feedback" -> IF modal.selectedOption = "found-job"
                                THEN "job-status" ELSE "initial"
         [] @ = "downsell" -> "initial"
         [] @ = "reasons" -> "using"
         [] @ = "downsell-accepted" -> "downsell"
         [] @ = "confirmation" -> "feedback"
         [] OTHER -> @])

\* the back button of the header
handleBack ==
  /\ Ready
  /\ showBack(modal)
  /\ Local([modal EXCEPT !.currentStep =
       CASE @ = "using" -> IF modal.downsellVariant = "B" /\ ~modal.acceptedDownsell
                             THEN "downsell" ELSE "initial"
         [] @ = "job-status" -> "initial"
         [] @ = "feedback" -> IF modal.selectedOption = "found-job"
                                THEN "job-status" ELSE "initial"
         [] @ = "downsell" -> "initial"
         [] @ = "reasons" -> "using"
         [] @ = "downsell-accepted" -> "downsell"
         [] @ = "confirmation" -> "feedback"
         [] OTHER -> @])

\* a draft save awaited before the handler goes on: the call gets through or not,
\* the handler ignores which
SaveThen(payload, kind, arg) ==
  \E reached \in BOOLEAN :
    LET r == IF reached
             THEN saveFoundJobAnswersRpc(subscriptions, cancellations,
                                         modal.cancellationId, payload)
             ELSE Unreachable
    IN /\ Commit("save_draft", modal.cancellationId, NULL, r)
       /\ UNCHANGED <<tieArms, txn>>
       /\ UsingStepEffect(modal, Append(inflight,
            Pending(kind, r.ok, modal.cancellationId, arg)))

handleClose ==
  /\ modal.isOpen /\ ~Closing
  /\ IF modal.cancellationId # 0 /\ PayloadKeys(buildDraftPayload(modal)) # {}
       THEN SaveThen(buildDraftPayload(modal), "close", NULL)
     ELSE Local(resetModal([isOpen |-> FALSE]))

\* the three buckets of the usage survey are chosen
CountsChosen(m) == m.appliedCount # "" /\ m.emailedCount # "" /\ m.interviewCount # ""

JobStatusGate_counts(m) == CountsChosen(m)

\* Continue of the job-status step is enabled
JobStatusGate(m) == m.attributedToMM # NULL /\ CountsChosen(m)

\* Continue of the using step is enabled
UsingGate(m) == CountsChosen(m)

ReasonsGate_trim(m) ==
  /\ m.reasonChoice # NULL
  /\ m.reasonChoice = "too_expensive" \/ Len(Trim(m.reasonText)) >= MIN_FEEDBACK

\* "Complete cancellation" of the reasons step is enabled
ReasonsGate(m) ==
  /\ m.reasonChoice # NULL
  /\ m.reasonChoice = "too_expensive"
       \/ Len(sanitizeText(m.reasonText)) >= MIN_FEEDBACK

ConfirmationGate_raw(m) == m.visaHasLawyer # NULL /\ m.visaType # <<>>

\* "Complete cancellation" of the confirmation step is enabled
ConfirmationGate(m) == m.visaHasLawyer # NULL /\ sanitizeText(m.visaType) # <<>>

\* the survey controls of the job-status and using steps
SetAttributedToMM(v) ==
  /\ Ready /\ modal.currentStep = "job-status"
  /\ Local([modal EXCEPT !.attributedToMM = v])

\* one bucket control at a time
setAppliedCount(v) ==
  /\ Ready /\ modal.currentStep \in {"job-status", "using"}
  /\ Local([modal EXCEPT !.appliedCount = v])

setEmailedCount(v) ==
  /\ Ready /\ modal.currentStep \in {"job-status", "using"}
  /\ Local([modal EXCEPT !.emailedCount = v])

setInterviewCount(v) ==
  /\ Ready /\ modal.currentStep \in {"job-status", "using"}
  /\ Local([modal EXCEPT !.interviewCount = v])

\* the three bucket controls answered one after the other
SetCounts(applied, emailed, interview) ==
  /\ Ready /\ modal.currentStep \in {"job-status", "using"}
  /\ Local([modal EXCEPT !.appliedCount = applied, !.emailedCount = emailed,
                         !.interviewCount = interview])

\* Continue of the job-status step
JobStatusContinue ==
  /\ Ready /\ modal.currentStep = "job-status"
  /\ JobStatusGate(modal)
  /\ IF modal.cancellationId # 0 /\ PayloadKeys(buildDraftPayload(modal)) # {}
       THEN SaveThen(buildDraftPayload(modal), "goto", "feedback")
     ELSE Local([modal EXCEPT !.currentStep = "feedback"])

\* "Get $10 off" of the downsell step, and the same button of the using and
\* reasons steps, rendered there for arm B while the offer is not accepted
AcceptOffer_anyarm ==
  /\ Ready
  /\ \/ modal.currentStep = "downsell"
     \/ /\ modal.currentStep \in {"using", "reasons"}
        /\ ~modal.acceptedDownsell
  /\ modal.cancellationId # 0
  /\ \E reached \in BOOLEAN :
       LET r == IF reached
                THEN accept_downsell(subscriptions, cancellations, NoAuth,
                                     modal.cancellationId)
                ELSE Unreachable
       IN /\ Commit("accept_downsell", modal.cancellationId, NULL, r)
          /\ UNCHANGED <<tieArms, txn>>
          /\ UsingStepEffect(modal, Append(inflight,
               Pending("accept", r.ok, modal.cancellationId, NULL)))

AcceptOffer_optimistic ==
  /\ Ready
  /\ \/ modal.currentStep = "downsell"
     \/ /\ modal.currentStep \in {"using", "reasons"}
        /\ modal.downsellVariant = "B" /\ ~modal.acceptedDownsell
  /\ modal.cancellationId # 0
  /\ \E reached \in BOOLEAN :
       LET r == IF reached
                THEN accept_downsell(subscriptions, cancellations, NoAuth,
                                     modal.cancellationId)
                ELSE Unreachable
       IN /\ Commit("accept_downsell", modal.cancellationId, NULL, r)
          /\ UNCHANGED <<tieArms, txn>>
          /\ UsingStepEffect([modal EXCEPT !.acceptedDownsell = TRUE,
                                           !.currentStep = "downsell-accepted"],
                             Append(inflight,
                               Pending("accept", r.ok, modal.cancellationId, NULL)))

\* "Get $10 off" of the downsell step and of the using and reasons steps
AcceptOffer ==
  /\ Ready
  /\ \/ modal.currentStep = "downsell"
     \/ /\ modal.currentStep \in {"using", "reasons"}
        /\ modal.downsellVariant = "B" /\ ~modal.acceptedDownsell
  /\ modal.cancellationId # 0
  /\ \E reached \in BOOLEAN :
       LET r == IF reached
                THEN accept_downsell(subscriptions, cancellations, NoAuth,
                                     modal.cancellationId)
                ELSE Unreachable
       IN /\ Commit("accept_downsell", modal.cancellationId, NULL, r)
          /\ UNCHANGED <<tieArms, txn>>
          /\ UsingStepEffect(modal, Append(inflight,
               Pending("accept", r.ok, modal.cancellationId, NULL)))

\* "No thanks" of the downsell step
DeclineOffer ==
  /\ Ready /\ modal.currentStep = "downsell"
  /\ Local([modal EXCEPT !.currentStep = "using"])

\* Continue of the using step
UsingContinue ==
  /\ Ready /\ modal.currentStep = "using"
  /\ UsingGate(modal)
  /\ IF modal.cancellationId # 0 /\ PayloadKeys(buildDraftPayload(modal)) # {}
       THEN SaveThen(buildDraftPayload(modal), "goto", "reasons")
     ELSE Local([modal EXCEPT !.currentStep = "reasons"])

\* no button of the using step is disabled while a call is pending: Continue
\* pressed while another handler awaits its call
UsingContinueClick ==
  /\ modal.isOpen /\ modal.currentStep = "using"
  /\ UsingGate(modal)
  /\ IF modal.cancellationId # 0 /\ PayloadKeys(buildDraftPayload(modal)) # {}
       THEN SaveThen(buildDraftPayload(modal), "goto", "reasons")
     ELSE Local([modal EXCEPT !.currentStep = "reasons"])

\* "Get $10 off" of the using step pressed while another handler awaits its call
AcceptOfferClick ==
  /\ modal.isOpen /\ modal.currentStep = "using"
  /\ modal.downsellVariant = "B" /\ ~modal.acceptedDownsell
  /\ modal.cancellationId # 0
  /\ \E reached \in BOOLEAN :
       LET r == IF reached
                THEN accept_downsell(subscriptions, cancellations, NoAuth,
                                     modal.cancellationId)
                ELSE Unreachable
       IN /\ Commit("accept_downsell", modal.cancellationId, NULL, r)
          /\ UNCHANGED <<tieArms, txn>>
          /\ UsingStepEffect(modal, Append(inflight,
               Pending("accept", r.ok, modal.cancellationId, NULL)))

\* the controls of the reasons step
SetReasonChoice(choice) ==
  /\ Ready /\ modal.currentStep = "reasons"
  /\ Local([modal EXCEPT !.reasonChoice = choice])

SetMaxPrice(price) ==
  /\ Ready /\ modal.currentStep = "reasons"
  /\ modal.reasonChoice = "too_expensive"
  /\ Local([modal EXCEPT !.maxPrice = price])

SetReasonText(text) ==
  /\ Ready /\ modal.currentStep = "reasons"
  /\ modal.reasonChoice \notin {NULL, "too_expensive"}
  /\ Local([modal EXCEPT !.reasonText = text])

\* "Complete cancellation" of the reasons step
ReasonsComplete ==
  /\ Ready /\ modal.currentStep = "reasons"
  /\ ReasonsGate(modal)
  /\ IF modal.cancellationId # 0
       THEN \E reached \in BOOLEAN :
         LET text == Str(Trim(sanitizeText(ComposeReason(modal))))
             r == IF reached
                  THEN finalize_still_looking(subscriptions, cancellations, NoAuth,
                                              modal.cancellationId, text)
                  ELSE Unreachable
         IN /\ Commit("finalize_still_looking", modal.cancellationId, text, r)
            /\ UNCHANGED <<tieArms, txn>>
            /\ UsingStepEffect(modal, Append(inflight,
                 Pending("finalize_still_looking", r.ok, modal.cancellationId, NULL)))
     ELSE Local([modal EXCEPT !.visaHasLawyer = "false", !.currentStep = "completed"])

\* the textarea of the feedback step
SetFeedback(text) ==
  /\ Ready /\ modal.currentStep = "feedback"
  /\ modal.selectedOption = "found-job"
  /\ Local([modal EXCEPT !.feedback = text])

\* Continue of the feedback step: disabled={feedback.trim().length < MIN_FEEDBACK}
FeedbackEnabled(m) == Len(Trim(m.feedback)) >= MIN_FEEDBACK

handleFeedbackSubmit ==
  /\ Ready /\ modal.currentStep = "feedback"
  /\ modal.selectedOption = "found-job"
  /\ FeedbackEnabled(modal)
  /\ IF modal.cancellationId # 0
       THEN SaveThen(FeedbackPayload(modal), "goto", "confirmation")
     ELSE Local([modal EXCEPT !.currentStep = "confirmation"])

\* the controls of the confirmation step
SetVisaHasLawyer(v) ==
  /\ Ready /\ modal.currentStep = "confirmation"
  /\ Local([modal EXCEPT !.visaHasLawyer = v])

SetVisaType(text) ==
  /\ Ready /\ modal.currentStep = "confirmation"
  /\ modal.visaHasLawyer # NULL
  /\ Local([modal EXCEPT !.visaType = text])

\* "Complete cancellation" of the confirmation step
ConfirmationComplete ==
  /\ Ready /\ modal.currentStep = "confirmation"
  /\ ConfirmationGate(modal)
  /\ IF modal.cancellationId # 0
       THEN \E reached \in BOOLEAN :
         LET visa == Str(Trim(sanitizeText(modal.visaType)))
             r == IF reached
                  THEN finalize_found_job(subscriptions, cancellations, NoAuth,
                                          modal.cancellationId, modal.visaHasLawyer, visa)
                  ELSE Unreachable
         IN /\ Commit("finalize_found_job", modal.cancellationId,
                      <<modal.visaHasLawyer, visa>>, r)
            /\ UNCHANGED <<tieArms, txn>>
            /\ UsingStepEffect(modal, Append(inflight,
                 Pending("finalize_found_job", r.ok, modal.cancellationId, NULL)))
     ELSE Local([modal EXCEPT !.currentStep = "completed"])

Continuation_onward(m, c, row) ==
  CASE c.kind = "latest" ->
         IF row # 0 THEN prefillFromCancellation([m EXCEPT !.cancellationId = row],
                                                 cancellations[row], TRUE)
         ELSE m
    [] c.kind = "answers" ->
         IF row # 0 THEN prefillFromCancellation(m, cancellations[row], FALSE) ELSE m
    [] c.kind = "select" ->
         IF c.ok THEN [m EXCEPT !.cancellationId = c.cid,
                                !.downsellVariant = c.arg[2],
                                !.currentStep = AfterSelect(c.arg[1], c.arg[2]),
                                !.abLoading = FALSE]
         ELSE [m EXCEPT !.abLoading = FALSE]
    [] c.kind = "goto" -> [m EXCEPT !.currentStep = c.arg]
    [] c.kind = "accept" ->
         IF c.ok THEN [m EXCEPT !.acceptedDownsell = TRUE,
                                !.currentStep = "downsell-accepted"]
         ELSE m
    [] c.kind = "finalize_still_looking" ->
         [m EXCEPT !.visaHasLawyer = "false", !.currentStep = "completed"]
    [] c.kind = "finalize_found_job" -> [m EXCEPT !.currentStep = "completed"]
    [] c.kind = "close" -> resetModal([isOpen |-> FALSE])

Continuation_blocked(m, c, row) ==
  CASE c.kind = "latest" ->
         IF row # 0 THEN prefillFromCancellation([m EXCEPT !.cancellationId = row],
                                                 cancellations[row], TRUE)
         ELSE m
    [] c.kind = "answers" ->
         IF row # 0 THEN prefillFromCancellation(m, cancellations[row], FALSE) ELSE m
    [] c.kind = "select" ->
         IF c.ok THEN [m EXCEPT !.cancellationId = c.cid,
                                !.downsellVariant = c.arg[2],
                                !.currentStep = AfterSelect(c.arg[1], c.arg[2]),
                                !.abLoading = FALSE]
         ELSE [m EXCEPT !.abLoading = FALSE]
    [] c.kind = "goto" -> IF c.ok THEN [m EXCEPT !.currentStep = c.arg] ELSE m
    [] c.kind = "accept" ->
         IF c.ok THEN [m EXCEPT !.acceptedDownsell = TRUE,
                                !.currentStep = "downsell-accepted"]
         ELSE m
    [] c.kind = "finalize_still_looking" ->
         IF c.ok THEN [m EXCEPT !.visaHasLawyer = "false", !.currentStep = "completed"]
         ELSE m
    [] c.kind = "finalize_found_job" ->
         IF c.ok THEN [m EXCEPT !.currentStep = "completed"] ELSE m
    [] c.kind = "close" -> resetModal([isOpen |-> FALSE])

\* the code after an await, once the awaited call has returned; row is what a
\* fetch found (the RPC's row), or 0 when it found nothing (the RPC fails and the
\* direct query, made without a signed-in identity, is shown no rows)
Continuation(m, c, row) ==
  CASE c.kind = "latest" ->
         IF row # 0 THEN prefillFromCancellation([m EXCEPT !.cancellationId = row],
                                                 cancellations[row], TRUE)
         ELSE m
    [] c.kind = "answers" ->
         IF row # 0 THEN prefillFromCancellation(m, cancellations[row], FALSE) ELSE m
    [] c.kind = "select" ->
         IF c.ok THEN [m EXCEPT !.cancellationId = c.cid,
                                !.downsellVariant = c.arg[2],
                                !.currentStep = AfterSelect(c.arg[1], c.arg[2]),
                                !.abLoading = FALSE]
         ELSE [m EXCEPT !.abLoading = FALSE]
    [] c.kind = "goto" -> [m EXCEPT !.currentStep = c.arg]
    [] c.kind = "accept" ->
         IF c.ok THEN [m EXCEPT !.acceptedDownsell = TRUE,
                                !.currentStep = "downsell-accepted"]
         ELSE m
    [] c.kind = "finalize_still_looking" ->
         IF c.ok THEN [m EXCEPT !.visaHasLawyer = "false", !.currentStep = "completed"]
         ELSE m
    [] c.kind = "finalize_found_job" ->
         IF c.ok THEN [m EXCEPT !.currentStep = "completed"] ELSE m
    [] c.kind = "close" -> resetModal([isOpen |-> FALSE])

\* what a returning fetch can have found
Fetched(c) ==
  CASE c.kind = "latest" -> {0, LatestCancellation(cancellations, userId)}
    [] c.kind = "answers" -> {0, c.cid}
    [] OTHER -> {0}

\* pending call i returns and its handler runs on; after the latest cancellation
\* is prefilled the effect goes on to fetch its answers
Resume(i) ==
  /\ i \in DOMAIN inflight
  /\ UNCHANGED <<subscriptions, cancellations, last, tieArms, txn>>
  /\ \E row \in Fetched(inflight[i]) :
       LET c == inflight[i]
           rest == SubSeq(inflight, 1, i - 1) \o SubSeq(inflight, i + 1, Len(inflight))
           m2 == Continuation(modal, c, row)
       IN IF c.kind = "latest" /\ row # 0
            THEN UsingStepEffect(m2, Append(rest, Pending("answers", TRUE, row, NULL)))
          ELSE UsingStepEffect(m2, rest)

\* time passes while a timeout is set, short of its expiry
Tick ==
  /\ timer.armed /\ timer.elapsed + TickMs < DEBOUNCE_MS
  /\ timer' = [timer EXCEPT !.elapsed = @ + TickMs]
  /\ lastEdit' = [lastEdit EXCEPT !.elapsed = @ + TickMs]
  /\ UNCHANGED <<subscriptions, cancellations, last, tieArms, txn, modal, inflight,
                 sessions>>

\* the rest of the wait passes without a change and the timeout expires:
\* debouncedSaveDraft's function saves the draft it was set for, and a failure
\* is logged
AutosaveFire ==
  /\ timer.armed
  /\ \E reached \in BOOLEAN :
       Commit("autosave", timer.cid, NULL,
              IF reached
              THEN saveFoundJobAnswersRpc(subscriptions, cancellations, timer.cid,
                                          timer.payload)
              ELSE Unreachable)
  /\ timer' = IdleTimer
  /\ lastEdit' = IdleTimer
  /\ UNCHANGED <<tieArms, txn, modal, inflight, sessions>>

\* another user starts cancelling, before the session's user has
OtherAssign(u) ==
  /\ LatestCancellation(cancellations, userId) = 0
  /\ AssignArm(NoAuth, u)

\* the first time the user opens the modal
FirstOpen == sessions = 0 /\ Open

\* what both branches of the flow share, in one session
NextShared ==
  \/ FirstOpen
  \/ handleBack
  \/ handleClose
  \/ SetCounts("1-5", "0", "1-2")
  \/ \E i \in 1..MaxInflight : Resume(i)
  \/ Tick
  \/ AutosaveFire
  \/ \E u \in Others : OtherAssign(u)

\* sessions of a user who found a job
NextFoundJob ==
  \/ handleOptionSelect("found-job")
  \/ SetAttributedToMM("true")
  \/ JobStatusContinue
  \/ \E text \in FeedbackInputs : SetFeedback(text)
  \/ handleFeedbackSubmit
  \/ \E v \in {"true", "false"} : SetVisaHasLawyer(v)
  \/ \E text \in VisaTypeInputs : SetVisaType(text)
  \/ ConfirmationComplete
  \/ NextShared

SpecFoundJob == Init /\ [][NextFoundJob]_vars

\* sessions of a user who is still looking
NextStillLooking ==
  \/ handleOptionSelect("still-looking")
  \/ AcceptOffer
  \/ DeclineOffer
  \/ UsingContinue
  \/ \E choice \in ReasonChoices : SetReasonChoice(choice)
  \/ \E price \in MaxPriceInputs : SetMaxPrice(price)
  \/ \E text \in ReasonTextInputs : SetReasonText(text)
  \/ ReasonsComplete
  \/ NextShared

SpecStillLooking == Init /\ [][NextStillLooking]_vars

\* a user who is still looking, leaves and comes back
NextResume ==
  \/ Open
  \/ handleOptionSelect("still-looking")
  \/ AcceptOffer
  \/ DeclineOffer
  \/ handleBack
  \/ handleClose
  \/ SetCounts("1-5", "0", "1-2")
  \/ UsingContinue
  \/ SetReasonChoice("too_expensive")
  \/ ReasonsComplete
  \/ \E i \in 1..MaxInflight : Resume(i)
  \/ AutosaveFire
  \/ \E u \in Others : OtherAssign(u)

SpecResume == Init /\ [][NextResume]_vars

\* a session of a user who is still looking and does not wait for the calls of
\* the using step to return
NextOverlap ==
  \/ FirstOpen
  \/ handleOptionSelect("still-looking")
  \/ DeclineOffer
  \/ SetCounts("1-5", "0", "1-2")
  \/ UsingContinueClick
  \/ AcceptOfferClick
  \/ SetReasonChoice("too_expensive")
  \/ ReasonsComplete
  \/ handleClose
  \/ \E i \in 1..MaxInflight : Resume(i)
  \/ AutosaveFire

SpecOverlap == Init /\ [][NextOverlap]_vars

\* one session over the two survey steps, bucket by bucket
NextSurvey ==
  \/ FirstOpen
  \/ \E option \in {"found-job", "still-looking"} : handleOptionSelect(option)
  \/ DeclineOffer
  \/ \E v \in {"true", "false"} : SetAttributedToMM(v)
  \/ setAppliedCount("1-5")
  \/ setEmailedCount("0")
  \/ setInterviewCount("1-2")
  \/ JobStatusContinue
  \/ UsingContinue
  \/ handleBack
  \/ handleClose
  \/ \E i \in 1..MaxInflight : Resume(i)
  \/ AutosaveFire

SpecSurvey == Init /\ [][NextSurvey]_vars

\* one session up to the end of the still-looking branch
NextReasons ==
  \/ FirstOpen
  \/ handleOptionSelect("still-looking")
  \/ DeclineOffer
  \/ SetCounts("1-5", "0", "1-2")
  \/ UsingContinue
  \/ \E choice \in ReasonChoices : SetReasonChoice(choice)
  \/ \E text \in ReasonGateInputs : SetReasonText(text)
  \/ ReasonsComplete
  \/ handleBack
  \/ handleClose
  \/ \E i \in 1..MaxInflight : Resume(i)
  \/ AutosaveFire

SpecReasons == Init /\ [][NextReasons]_vars

\* one session up to the end of the found-job branch
NextConfirmation ==
  \/ FirstOpen
  \/ handleOptionSelect("found-job")
  \/ SetAttributedToMM("true")
  \/ SetCounts("1-5", "0", "1-2")
  \/ JobStatusContinue
  \/ SetFeedback(Rep("x", MIN_FEEDBACK))
  \/ handleFeedbackSubmit
  \/ \E v \in {"true", "false"} : SetVisaHasLawyer(v)
  \/ \E text \in VisaGateInputs : SetVisaType(text)
  \/ ConfirmationComplete
  \/ handleBack
  \/ handleClose
  \/ \E i \in 1..MaxInflight : Resume(i)
  \/ AutosaveFire

SpecConfirmation == Init /\ [][NextConfirmation]_vars

(***************************************************************************)
(* Properties                                                              *)
(***************************************************************************)

ArmCount(v) ==
  Cardinality({i \in DOMAIN cancellations : cancellations[i].downsell_variant = v})

Abs(n) == IF n < 0 THEN -n ELSE n

\* the counts of A and B among the other records when the last call chose its arm
CountBefore(v) == ArmCount(v) - (IF last.variant = v THEN 1 ELSE 0)

LatestSubOf(subs, u) ==
  CHOOSE i \in DOMAIN subs :
    /\ subs[i].user_id = u
    /\ \A j \in DOMAIN subs : subs[j].user_id = u => j <= i

\* C1: starting from a store with no assigned cancellations, after any sequence
\* of sequential first-time assignments to distinct users the number of
\* records with arm A and the number with arm B differ by at most one.
C1_Balanced == Abs(ArmCount("A") - ArmCount("B")) <= 1

\* every user has been assigned, the last of them by a first-time call
C1_Witness ==
  /\ last.op = "assign" /\ last.ok /\ last.fresh
  /\ ArmCount("A") + ArmCount("B") = NUsers

\* C2: the count of the arms and the assignment are one atomic step, so that
\* once concurrent first-time assignments have all committed the two arms still
\* differ by at most one record.
C2_ConcurrentBalanced ==
  (\A p \in Procs : txn[p].pc = "idle") => Abs(ArmCount("A") - ArmCount("B")) <= 1

\* C3: a call of assignArm that repeats a successful call for the same user
\* returns the same record id and the same arm, and leaves the store as it was.
C3_AssignIdempotent ==
  [][(last'.op = "assign" /\ last'.ok /\ last'.again)
       => /\ last'.cid = last.cid
          /\ last'.variant = last.variant
          /\ cancellations' = cancellations
          /\ subscriptions' = subscriptions]_vars

\* a successful repeat of a successful assignArm on a record that has its arm
C3_Witness ==
  /\ last.op = "assign" /\ last.ok /\ last.again /\ ~last.fresh
  /\ cancellations[last.cid].downsell_variant = last.variant

\* C4: once a record's arm is A or B, no operation changes it.
C4_ArmImmutable ==
  [][\A i \in DOMAIN cancellations :
       cancellations[i].downsell_variant \in Variants
         => cancellations'[i].downsell_variant = cancellations[i].downsell_variant]_vars

\* a record with its arm set has since been finalized and its draft answers
\* saved, and the arm is still there
C4_Witness ==
  \E i \in DOMAIN cancellations :
    /\ cancellations[i].downsell_variant \in Variants
    /\ cancellations[i].visa_type # NULL
    /\ cancellations[i].applied_count # NULL
    /\ last.op = "begin" /\ last.ok /\ last.cid = i

\* C5: an update of a record whose arm is set to a different arm or to unset is
\* rejected with an error and changes nothing; an update of an unset arm to A
\* or B is accepted.
C5_VariantGuard ==
  [][last'.op = "update_cancellation"
       => LET old == cancellations[last'.target].downsell_variant
              new == last'.val
          IN /\ (old \in Variants /\ new # old)
                  => /\ ~last'.ok
                     /\ last'.err = "downsell_variant is immutable"
                     /\ cancellations' = cancellations
             /\ (old = NULL /\ new \in Variants)
                  => /\ last'.ok
                     /\ cancellations'[last'.target].downsell_variant = new]_vars

\* an update that tried to unset or flip a set arm was rejected
C5_Witness ==
  /\ last.op = "update_cancellation" /\ ~last.ok
  /\ last.err = "downsell_variant is immutable"
  /\ cancellations[last.target].downsell_variant \in Variants
  /\ last.val # cancellations[last.target].downsell_variant

\* C6: an update of a subscription's status succeeds exactly when the status
\* is unchanged or the change is active -> pending_cancellation,
\* active -> cancelled, pending_cancellation -> cancelled or
\* pending_cancellation -> active; otherwise it fails and changes nothing.
C6_TransitionLegal ==
  [][last'.op = "update_subscription"
       => LET from == subscriptions[last'.target].status
              to == last'.val
          IN IF \/ from = to
                \/ <<from, to>> \in {<<"active", "pending_cancellation">>,
                                     <<"active", "cancelled">>,
                                     <<"pending_cancellation", "cancelled">>,
                                     <<"pending_cancellation", "active">>}
               THEN /\ last'.ok
                    /\ subscriptions'[last'.target].status = to
               ELSE /\ ~last'.ok
                    /\ last'.err = "invalid status transition"
                    /\ subscriptions' = subscriptions]_vars

\* a pending subscription was put back to active by a status update
C6_Witness ==
  /\ last.op = "update_subscription" /\ last.ok /\ last.val = "active"
  /\ subscriptions[last.target].status = "active"
  /\ \E i \in DOMAIN cancellations :
       cancellations[i].subscription_id = last.target

\* C7: a first-time assignment made while the two arms have different counts
\* gives the user the arm with the smaller count.
C7_MinorityArm ==
  (last.op = "assign" /\ last.ok /\ last.fresh)
    => /\ cancellations[last.cid].downsell_variant = last.variant
       /\ CountBefore("A") > CountBefore("B") => last.variant = "B"
       /\ CountBefore("B") > CountBefore("A") => last.variant = "A"

\* a first-time call found two records with A and one with B, and chose B
C7_Witness ==
  /\ last.op = "assign" /\ last.ok /\ last.fresh
  /\ CountBefore("A") = 2 /\ CountBefore("B") = 1
  /\ last.variant = "B"

C9_AssignMarksPending ==
  [][(last'.op = "assign" /\ last'.ok)
       => LET s == LatestSubOf(subscriptions, last'.target)
          IN /\ DOMAIN subscriptions' = DOMAIN subscriptions
             /\ subscriptions[s].status \in {"active", "pending_cancellation"}
                  => subscriptions'[s].status = "pending_cancellation"
             /\ subscriptions[s].status = "cancelled"
                  => subscriptions'[s].status = "cancelled"
             /\ \A i \in DOMAIN subscriptions :
                  i # s => subscriptions'[i] = subscriptions[i]]_vars

\* the user has an older subscription that is still active beside the most
\* recent one, which a successful assignArm has just left pending
C9_Witness ==
  /\ last.op = "assign" /\ last.ok
  /\ subscriptions[LatestSubOf(subscriptions, last.target)].status
       = "pending_cancellation"
  /\ \E i \in DOMAIN subscriptions :
       /\ subscriptions[i].user_id = last.target
       /\ i # LatestSubOf(subscriptions, last.target)
       /\ subscriptions[i].status = "active"

\* C10: a subscription whose status is cancelled keeps that status under every
\* operation, direct status updates included.
C10_CancelledAbsorbing ==
  [][\A i \in DOMAIN subscriptions :
       subscriptions[i].status = "cancelled"
         => subscriptions'[i].status = "cancelled"]_vars

\* a status update away from cancelled was attempted and refused
C10_Witness ==
  /\ last.op = "update_subscription" /\ ~last.ok
  /\ subscriptions[last.target].status = "cancelled"
  /\ last.val # "cancelled"

\* C11: after any sequence of non-overlapping calls each user has at most one
\* cancellation record, and a successful assignArm returns that record: a record
\* is created only for a user that has none.
C11_OneRecordPerUser ==
  /\ \A u \in Users :
       Cardinality({i \in DOMAIN cancellations : cancellations[i].user_id = u}) <= 1
  /\ (last.op = "assign" /\ last.ok)
       => /\ last.cid \in DOMAIN cancellations
          /\ cancellations[last.cid].user_id = last.target

\* a repeat assignArm of the session's user, who shares the table with another
\* user's record, came back with the record the user already had
C11_Witness ==
  /\ last.op = "assign" /\ last.ok /\ ~last.fresh /\ last.target = userId
  /\ OwnCancellations = {last.cid}
  /\ Len(cancellations) = 1 + NOthers

\* the outcome of a call refused for the caller's identity
Denied(r) ==
  /\ ~r.ok /\ r.err = "forbidden"
  /\ r.subs = subscriptions /\ r.cans = cancellations

\* C12: with a caller identity that is not the owning user, assignArm, the draft
\* save, acceptDownsell and both finalize operations fail with 'forbidden' and
\* change no subscription or cancellation record, whatever the store holds.
C12_PermissionDenied ==
  \A v \in Users :
    /\ \A u \in Users \ {v} :
         Denied(assign_balanced_downsell(subscriptions, cancellations, v, u))
    /\ \A c \in DOMAIN cancellations :
         cancellations[c].user_id # v
           => /\ Denied(accept_downsell(subscriptions, cancellations, v, c))
              /\ \A p \in DraftArgs :
                   Denied(save_found_job_answers(subscriptions, cancellations, v, c, p))
              /\ \A a \in VisaArgs :
                   Denied(finalize_found_job(subscriptions, cancellations, v, c,
                                             a[1], a[2]))
              /\ \A t \in ReasonArgs :
                   Denied(finalize_still_looking(subscriptions, cancellations, v, c, t))

\* a foreign signed-in caller has just been refused a finalize of a record with
\* saved answers, and the subscription is still pending
C12_Witness ==
  /\ last.op = "finalize_still_looking" /\ ~last.ok /\ last.err = "forbidden"
  /\ cancellations[last.target].applied_count # NULL
  /\ subscriptions[cancellations[last.target].subscription_id].status
       = "pending_cancellation"

\* C13: saving a partial draft that carries only applied_count = "1-5" sets that
\* field and leaves every other field of the record as it was.
C13_PartialDraftKeepsFields ==
  \A c \in DOMAIN cancellations :
    LET p == [p_attributed_to_mm |-> NULL, p_applied |-> "1-5", p_emailed |-> "",
              p_interview |-> "", p_reason |-> NULL]
        r == save_found_job_answers(subscriptions, cancellations, NoAuth, c, p)
    IN r.ok => r.cans[c] = [cancellations[c] EXCEPT !.applied_count = "1-5"]

---------------------------------------------------------------------------
(* sanitizeText applied to typed text *)

MaxChunks == 3

\* pieces a user may type or paste one after the other
Chunks ==
  { <<"j", "a", "v", "a">>,
    <<"s", "c", "r", "i", "p", "t", ":">>,
    <<"J", "a", "v", "a", "S", "c", "r", "i", "p", "t", ":">>,
    data_html_scheme,
    <<"<", "b", ">">>,
    <<"<">>,
    <<" ">>,
    <<"x", "\n">> }

RECURSIVE Typed(_)
Typed(n) ==
  IF n = 0 THEN {<<>>}
  ELSE Typed(n - 1) \cup {t \o c : t \in Typed(n - 1), c \in Chunks}

\* texts longer than the clamp
LongInputs ==
  { Rep("x", MAX_TEXT_LEN + 1),
    Rep("x", MAX_TEXT_LEN - 1) \o <<" ", "y">> }

TextInputs == Typed(MaxChunks) \cup LongInputs

\* the feedback textarea holds a typed text
InitText ==
  /\ Init!1 /\ Init!2 /\ Init!3 /\ Init!4 /\ Init!5
  /\ \E x \in TextInputs : modal = [resetModal([isOpen |-> TRUE]) EXCEPT !.feedback = x]
  /\ inflight = <<>>
  /\ sessions = 1
  /\ timer = IdleTimer
  /\ lastEdit = IdleTimer

\* setFeedback(sanitizeText(...)): the text is replaced by its sanitized form
SanitizeFeedback ==
  /\ modal.feedback # sanitizeText(modal.feedback)
  /\ modal' = [modal EXCEPT !.feedback = sanitizeText(modal.feedback)]
  /\ UNCHANGED <<subscriptions, cancellations, last, tieArms, txn, inflight, sessions,
                 timer, lastEdit>>

NextText == SanitizeFeedback

SpecText == InitText /\ [][NextText]_vars

\* C20: sanitizeText is idempotent: sanitizing a sanitized text changes nothing.
C20_SanitizeIdempotent ==
  sanitizeText(sanitizeText(modal.feedback)) = sanitizeText(modal.feedback)

---------------------------------------------------------------------------
(* The wizard's steps *)

\* the session user's cancellation record in a store
OwnRecord(cans) == cans[LatestCancellation(cans, userId)]

\* C14: when the choice of still-looking moves the wizard off the initial step,
\* it enters downsell if the user's record has arm B and the downsell is not
\* accepted, and using otherwise (arm A, or arm B with the downsell accepted)
C14_StillLookingRoute ==
  [][ (modal.currentStep = "initial" /\ modal'.currentStep \in {"downsell", "using"})
        => (modal'.currentStep = "downsell"
              <=> (OwnRecord(cancellations').downsell_variant = "B"
                     /\ ~OwnRecord(cancellations').accepted_downsell)) ]_vars

\* C15: in every reachable state of the wizard, the downsell step is shown only
\* to arm B: the arm the wizard holds and the arm of the user's record are both B
C15_DownsellOnlyArmB ==
  modal.currentStep = "downsell"
    => /\ modal.downsellVariant = "B"
       /\ LatestCancellation(cancellations, userId) # 0
       /\ OwnRecord(cancellations).downsell_variant = "B"

\* the downsell step is on screen for arm B, offer not accepted, with the usage
\* answers of the using step already given
C15_Witness ==
  /\ modal.isOpen /\ modal.currentStep = "downsell"
  /\ modal.downsellVariant = "B" /\ ~modal.acceptedDownsell
  /\ modal.appliedCount # ""

\* Continue of the feedback step has just been pressed: its save is awaited with
\* the move to confirmation behind it, or (no record) the move is made at once
FeedbackSubmitted ==
  \/ /\ Len(inflight') = Len(inflight) + 1
     /\ inflight'[Len(inflight')].kind = "goto"
     /\ inflight'[Len(inflight')].arg = "confirmation"
  \/ /\ inflight' = inflight
     /\ modal.currentStep = "feedback" /\ modal'.currentStep = "confirmation"

\* C16: the forward transition from feedback to confirmation is taken only with
\* a feedback text of at least 25 characters after sanitization
C16_FeedbackGate ==
  [][ FeedbackSubmitted => Len(sanitizeText(modal.feedback)) >= MIN_FEEDBACK ]_vars

\* "Complete cancellation" of the reasons step has just been pressed and
\* finalizeStillLooking has succeeded
StillLookingFinalized ==
  /\ Len(inflight') = Len(inflight) + 1
  /\ inflight'[Len(inflight')].kind = "finalize_still_looking"
  /\ inflight'[Len(inflight')].ok

\* the reason the wizard's answers stand for
ExpectedReason(m) ==
  IF m.reasonChoice = "too_expensive"
    THEN IF m.maxPrice # <<>> THEN "Too expensive; willing to pay $" \o Str(m.maxPrice)
         ELSE "Too expensive"
  ELSE Str(sanitizeText(m.reasonText))

\* C17: a successful finalizeStillLooking leaves the composed reason on the
\* cancellation ("Too expensive; willing to pay $<maxPrice>" or "Too expensive"
\* for too_expensive, the sanitized free text for another code) and the linked
\* subscription cancelled
C17_FinalizeStillLooking ==
  [][ StillLookingFinalized =>
        LET row == cancellations'[modal.cancellationId]
        IN /\ row.reason = ExpectedReason(modal)
           /\ subscriptions'[row.subscription_id].status = "cancelled" ]_vars

\* the wizard has finalized with too_expensive and a max price of 15
C17_Witness ==
  /\ last.op = "finalize_still_looking" /\ last.ok
  /\ modal.reasonChoice = "too_expensive" /\ modal.maxPrice = <<"1", "5">>
  /\ modal.cancellationId # 0
  /\ cancellations[modal.cancellationId].reason = "Too expensive; willing to pay $15"
  /\ subscriptions[cancellations[modal.cancellationId].subscription_id].status = "cancelled"

\* the subscription the session is cancelling: the one its cancellation record
\* names, or the user's latest one while the wizard holds no record
SessionSubscription ==
  IF modal.cancellationId # 0 THEN cancellations[modal.cancellationId].subscription_id
  ELSE LatestSubOf(subscriptions, userId)

\* C19: in every reachable state with currentStep = completed the finalize of
\* the branch has succeeded: the session's subscription has status cancelled
C19_CompletedAfterFinalize ==
  modal.currentStep = "completed"
    => subscriptions[SessionSubscription].status = "cancelled"

(***************************************************************************)
(* Draft saves                                                             *)
(***************************************************************************)

\* a dependency of the autosave effect changes while the wizard holds a record
\* and has something to save
AutosavedChange ==
  /\ AutosaveDeps(modal') # AutosaveDeps(modal)
  /\ modal'.cancellationId # 0
  /\ PayloadKeys(buildDraftPayload(modal')) # {}

\* the timeout of the debounced save expires and its save is issued
AutosaveIssued == timer.armed /\ ~timer'.armed

\* the time without a change when the timeout expires: what had passed since
\* the last change, and the rest of the wait
QuietAtExpiry == lastEdit.elapsed + (DEBOUNCE_MS - timer.elapsed)

\* C26: the debounce coalesces changes: each change of an autosaved field
\* restarts a quiet period of at least 500 ms, a save is issued only once no
\* change was made for the whole period, one save per period, and it carries
\* the payload of the last change
C26_DebounceCoalesces ==
  [][ /\ AutosavedChange =>
           /\ timer'.armed /\ timer'.elapsed = 0
           /\ timer'.payload = buildDraftPayload(modal')
      /\ AutosaveIssued =>
           /\ DEBOUNCE_MS >= 500
           /\ QuietAtExpiry >= DEBOUNCE_MS
           /\ timer' = IdleTimer
           /\ last'.op = "autosave" /\ last'.target = lastEdit.cid
           /\ last'.ok =>
                cancellations' = saveFoundJobAnswersRpc(subscriptions, cancellations,
                                   lastEdit.cid, lastEdit.payload).cans ]_vars

\* a debounced save has stored the survey answers while the wizard is open and
\* no further save is scheduled
C26_Witness ==
  /\ last.op = "autosave" /\ last.ok /\ ~timer.armed
  /\ modal.isOpen /\ modal.cancellationId = last.target
  /\ cancellations[last.target].applied_count = "1-5"

\* the answers a cancellation record holds
AnswersOf(row) ==
  <<row.attributed_to_mm, row.applied_count, row.emailed_count, row.interview_count,
    row.reason, row.visa_has_lawyer, row.visa_type>>

\* finalize has completed for record i: its subscription is cancelled
FinalizedRecord(i) ==
  /\ cancellations[i].subscription_id # 0
  /\ subscriptions[cancellations[i].subscription_id].status = "cancelled"

\* C21: once finalize has completed the answers are locked: no later draft save
\* (a debounced autosave that fires afterwards, the save on close from the
\* completed step) changes an answer field of the record
C21_AnswersLocked ==
  [][ \A i \in DOMAIN cancellations :
        FinalizedRecord(i) /\ last'.op \in {"save_draft", "autosave"}
          => AnswersOf(cancellations'[i]) = AnswersOf(cancellations[i]) ]_vars

(***************************************************************************)
(* Opening and closing                                                     *)
(***************************************************************************)

\* C22: the wizard opens at the initial step with no branch selected: closing
\* resets the step to initial and no action that was in flight at the time of
\* closing moves it away from initial afterwards
C22_OpensAtInitial ==
  [][ /\ ~modal'.isOpen => modal'.currentStep = "initial" /\ modal'.selectedOption = NULL
      /\ ~modal.isOpen /\ modal'.isOpen
           => modal'.currentStep = "initial" /\ modal'.selectedOption = NULL ]_vars

(***************************************************************************)
(* Failing calls                                                           *)
(***************************************************************************)

\* the pending calls but call i
Without(i) == SubSeq(inflight, 1, i - 1) \o SubSeq(inflight, i + 1, Len(inflight))

\* a call of one of the kinds has failed and its handler runs on
FailedReturn(kinds) ==
  \E i \in DOMAIN inflight :
    inflight[i].kind \in kinds /\ ~inflight[i].ok /\ inflight' = Without(i)

\* C23: a failing call leaves the wizard where it was, answers included: after a
\* failing assignBalancedDownsell only the loading flag is cleared (the step stays
\* initial and the two choices are enabled again), after a failing finalize the
\* step stays reasons or confirmation, never completed, and a Complete button
\* that was enabled is still enabled for a retry
C23_FailureKeepsStep ==
  [][ /\ FailedReturn({"select"}) =>
           /\ modal' = [modal EXCEPT !.abLoading = FALSE]
           /\ modal'.currentStep = modal.currentStep
      /\ FailedReturn({"finalize_still_looking", "finalize_found_job"}) =>
           /\ modal' = modal
           /\ modal'.currentStep # "completed" \/ modal.currentStep = "completed"
           /\ ReasonsGate(modal) => ReasonsGate(modal')
           /\ ConfirmationGate(modal) => ConfirmationGate(modal') ]_vars

\* a finalize of the found-job branch has failed and returned: the wizard is at
\* the confirmation step with its answers, no call pending
C23_Witness ==
  /\ last.op = "finalize_found_job" /\ ~last.ok
  /\ modal.isOpen /\ modal.currentStep = "confirmation" /\ ~Busy
  /\ ConfirmationGate(modal) /\ modal.cancellationId # 0

\* C24: a failing draft save never blocks navigation: the Continue of the
\* job-status, using and feedback steps moves on and the close closes whether
\* the save they await succeeded or not, and a failing debounced autosave
\* leaves the wizard as it was
C24_SaveFailureIgnored ==
  [][ /\ \A i \in DOMAIN inflight :
           inflight[i].kind = "goto" /\ ~inflight[i].ok /\ inflight' = Without(i)
             => modal' = [modal EXCEPT !.currentStep = inflight[i].arg]
      /\ FailedReturn({"close"}) => ~modal'.isOpen /\ modal'.currentStep = "initial"
      /\ AutosaveIssued /\ ~last'.ok =>
           /\ UNCHANGED <<modal, inflight>>
           /\ UNCHANGED <<subscriptions, cancellations>> ]_vars

\* the save of the job-status Continue has failed and the wizard is at the
\* feedback step
C24_Witness ==
  /\ last.op = "save_draft" /\ ~last.ok
  /\ modal.isOpen /\ modal.currentStep = "feedback" /\ ~Busy
  /\ cancellations[modal.cancellationId].applied_count = NULL

\* a Continue has just been pressed and awaits its save
ContinuePressed ==
  /\ Len(inflight') = Len(inflight) + 1
  /\ inflight'[Len(inflight')].kind = "goto"

\* the record holds the three buckets the wizard shows
CountsStored(row, m) ==
  /\ row.applied_count = m.appliedCount
  /\ row.emailed_count = m.emailedCount
  /\ row.interview_count = m.interviewCount

\* C25: the Continue of the job-status, using and feedback steps changes the
\* step only after the save it issues has returned, and when that save
\* succeeded the record holds the answers of the step being left at the time
\* the next step is entered
C25_SavedBeforeEntering ==
  [][ /\ ContinuePressed => modal'.currentStep = modal.currentStep
      /\ \A i \in DOMAIN inflight :
           ( /\ inflight[i].kind = "goto" /\ inflight[i].ok
             /\ inflight' = Without(i)
             /\ modal.isOpen /\ modal.cancellationId = inflight[i].cid )
           => LET row == cancellations[inflight[i].cid]
                  to == inflight[i].arg
              IN /\ modal'.currentStep = to
                 /\ to \in {"feedback", "reasons"} => CountsStored(row, modal)
                 /\ to = "feedback" => row.attributed_to_mm = modal.attributedToMM
                 /\ to = "confirmation"
                      => row.reason = Str(sanitizeText(modal.feedback)) ]_vars

(***************************************************************************)
(* Required fields                                                         *)
(***************************************************************************)

\* a Continue or Complete button can be pressed: the step is shown, no call of
\* a button is pending and one more call can be awaited
Pressable(step) ==
  modal.isOpen /\ ~Busy /\ modal.currentStep = step /\ Len(inflight) < MaxInflight

AttributionSet == modal.attributedToMM \in {"true", "false"}

BucketsChosen ==
  /\ modal.appliedCount \in AppliedOpts
  /\ modal.emailedCount \in AppliedOpts
  /\ modal.interviewCount \in InterviewOpts

\* the step moves forward from one step to another, or the Continue that leads
\* there is pressed
Forward(from, to) ==
  \/ modal.currentStep = from /\ modal'.currentStep = to /\ inflight' = inflight
  \/ /\ modal.currentStep = from /\ ContinuePressed
     /\ inflight'[Len(inflight')].arg = to

\* C27: Continue of job-status is enabled iff the attribution flag is set and
\* the three buckets are chosen, Continue of using iff the three buckets are
\* chosen, and no step forward is made from either while its gate is unmet
C27_SurveyGates ==
  [][ /\ Pressable("job-status")
           => ((ENABLED JobStatusContinue) <=> (AttributionSet /\ BucketsChosen))
      /\ Pressable("using") => ((ENABLED UsingContinue) <=> BucketsChosen)
      /\ Forward("job-status", "feedback") => AttributionSet /\ BucketsChosen
      /\ Forward("using", "reasons") => BucketsChosen ]_vars

\* the job-status step with the attribution and two of the three buckets
\* answered
C27_Witness ==
  /\ Pressable("job-status") /\ AttributionSet
  /\ modal.appliedCount = "1-5" /\ modal.emailedCount = "0"
  /\ modal.interviewCount = ""

\* "Complete cancellation" of the reasons step has just called
\* finalizeStillLooking
StillLookingCalled ==
  /\ Len(inflight') = Len(inflight) + 1
  /\ inflight'[Len(inflight')].kind = "finalize_still_looking"

\* a reason code is chosen, and it is too_expensive or the free text has 25
\* characters after sanitization
ReasonGiven ==
  /\ modal.reasonChoice \in ReasonChoices
  /\ modal.reasonChoice = "too_expensive" \/ Len(sanitizeText(modal.reasonText)) >= 25

\* C28: "Complete cancellation" of the reasons step is enabled iff a reason
\* code is chosen and either it is too_expensive or the sanitized free text has
\* at least 25 characters; otherwise finalizeStillLooking is not called and the
\* step does not become completed
C28_ReasonsGate ==
  [][ /\ Pressable("reasons") => (ReasonsGate(modal) <=> ReasonGiven)
      /\ StillLookingCalled => ReasonGiven
      /\ Forward("reasons", "completed") => ReasonGiven ]_vars

\* the reasons step with code other and a text of 25 characters of which
\* sanitizeText leaves 22
C28_Witness ==
  /\ Pressable("reasons") /\ modal.reasonChoice = "other"
  /\ Len(modal.reasonText) = 25 /\ Len(sanitizeText(modal.reasonText)) = 22

\* "Complete cancellation" of the confirmation step has just called
\* finalizeFoundJob
FoundJobCalled ==
  /\ Len(inflight') = Len(inflight) + 1
  /\ inflight'[Len(inflight')].kind = "finalize_found_job"

\* the has-lawyer flag is set and the visa type is not empty after sanitization
VisaGiven ==
  /\ modal.visaHasLawyer \in {"true", "false"}
  /\ Len(sanitizeText(modal.visaType)) > 0

\* C29: "Complete cancellation" of the confirmation step is enabled iff the
\* has-lawyer flag is set and the sanitized visa type is non-empty; otherwise
\* finalizeFoundJob is not called and the step does not become completed
C29_ConfirmationGate ==
  [][ /\ Pressable("confirmation") => (ConfirmationGate(modal) <=> VisaGiven)
      /\ FoundJobCalled => VisaGiven
      /\ Forward("confirmation", "completed") => VisaGiven ]_vars

\* the confirmation step with the flag set and a visa type of which
\* sanitizeText leaves nothing
C29_Witness ==
  /\ Pressable("confirmation") /\ modal.visaHasLawyer \in {"true", "false"}
  /\ modal.visaType # <<>> /\ sanitizeText(modal.visaType) = <<>>

(***************************************************************************)
(* Back navigation                                                         *)
(***************************************************************************)

\* the back button is pressed on the using step
BackFromUsing ==
  /\ modal.isOpen /\ modal'.isOpen /\ inflight' = inflight
  /\ modal.currentStep = "using" /\ modal'.currentStep \in {"downsell", "initial"}

\* C30: back from using goes to downsell for arm B with the offer not accepted
\* and to initial otherwise, and it mirrors the way forward: from the step it
\* lands on, the still-looking branch leads to using again through the same
\* states, so from initial the still-looking choice leads straight to using
C30_BackMirrorsForward ==
  [][ BackFromUsing =>
        /\ modal'.currentStep =
             IF modal.downsellVariant = "B" /\ ~modal.acceptedDownsell
               THEN "downsell" ELSE "initial"
        /\ modal'.currentStep = "initial" /\ modal'.downsellVariant \in Variants
             => AfterSelect("still-looking", modal'.downsellVariant) = "using" ]_vars

\* the steps a step leads forward to without a call
ForwardOf(step) ==
  CASE step = "job-status" -> {"feedback"}
    [] step = "downsell" -> {"using"}
    [] step = "using" -> {"reasons"}
    [] step = "reasons" -> {"completed"}
    [] step = "feedback" -> {"confirmation"}
    [] step = "confirmation" -> {"completed"}
    [] OTHER -> {}

\* no call is made or returns, but for the fetch of the answers that entering
\* the using step starts
NoCall ==
  \/ inflight' = inflight
  \/ /\ modal'.currentStep = "using" /\ Len(inflight') = Len(inflight) + 1
     /\ inflight' = Append(inflight, inflight'[Len(inflight')])
     /\ inflight'[Len(inflight')].kind = "answers"

\* the back button is pressed on a step: the step alone changes, no call is
\* made or returns, and the new step is not one the step leads forward to
BackFrom(step) ==
  /\ modal.isOpen /\ modal.currentStep = step /\ NoCall
  /\ modal'.currentStep \notin {step} \cup ForwardOf(step)
  /\ modal' = [modal EXCEPT !.currentStep = modal'.currentStep]

\* C31: back from job-status, downsell and reasons goes to initial
C31_BackToInitial ==
  [][ \A step \in {"job-status", "downsell", "reasons"} :
        BackFrom(step) => modal'.currentStep = "initial" ]_vars

\* C32: initial, completed and downsell-accepted offer no back action: on these
\* steps the back button cannot be pressed
C32_NoBackAction ==
  modal.currentStep \in {"initial", "completed", "downsell-accepted"}
    => ~(ENABLED handleBack)

\* the wizard shows the downsell-accepted step, no call pending
C32_Witness ==
  /\ modal.isOpen /\ ~Busy /\ modal.currentStep = "downsell-accepted"
  /\ modal.acceptedDownsell

\* ---- Accepting and declining the offer ----

\* the accept button has just been pressed and awaits acceptDownsell
AcceptPressed ==
  /\ Len(inflight') = Len(inflight) + 1
  /\ inflight'[Len(inflight')].kind = "accept"

\* the pending acceptDownsell with the given outcome returns
AcceptReturned(ok) ==
  \E i \in DOMAIN inflight :
    inflight[i].kind = "accept" /\ inflight[i].ok = ok /\ inflight' = Without(i)

\* C33: accepting the offer moves to downsell-accepted and sets the accepted flag
\* only after acceptDownsell succeeded: pressing the button changes nothing in
\* the wizard, a successful return sets the flag and the step, a failed return
\* leaves the wizard as it was, and the flag or the step is only ever set when
\* the store holds a record of the user as accepted; declining from downsell moves to using
\* without a store write
C33_AcceptAfterSuccess ==
  [][ /\ AcceptPressed => modal' = modal
      /\ AcceptReturned(TRUE) =>
           modal' = [modal EXCEPT !.acceptedDownsell = TRUE,
                                  !.currentStep = "downsell-accepted"]
      /\ AcceptReturned(FALSE) => modal' = modal
      /\ \/ modal'.acceptedDownsell /\ ~modal.acceptedDownsell
         \/ modal'.currentStep = "downsell-accepted"
              /\ modal.currentStep # "downsell-accepted"
         => \E i \in DOMAIN cancellations :
              /\ cancellations[i].user_id = userId
              /\ cancellations[i].accepted_downsell = TRUE
      /\ modal.currentStep = "downsell" /\ modal'.currentStep = "using"
           => UNCHANGED <<subscriptions, cancellations, last>> ]_vars

\* an acceptDownsell has failed and returned: the wizard is still at the downsell
\* step with the flag unset
C33_Witness ==
  /\ last.op = "accept_downsell" /\ ~last.ok
  /\ modal.isOpen /\ ~Busy /\ modal.currentStep = "downsell"
  /\ ~modal.acceptedDownsell /\ modal.cancellationId # 0
  /\ cancellations[modal.cancellationId].accepted_downsell # TRUE

\* ---- The accepted offer ----

\* the controls of the wizard other than its close button
OtherControls ==
  \/ handleBack
  \/ \E option \in {"found-job", "still-looking"} : handleOptionSelect(option)
  \/ AcceptOffer
  \/ DeclineOffer
  \/ SetCounts("1-5", "0", "1-2")
  \/ UsingContinue
  \/ SetReasonChoice("too_expensive")
  \/ ReasonsComplete
  \/ JobStatusContinue
  \/ handleFeedbackSubmit
  \/ ConfirmationComplete

\* C34: downsell-accepted is terminal: while the wizard shows it no control but
\* the close button can be used, the step stays downsell-accepted until the
\* wizard closes, and no finalize is called
C34_AcceptedIsTerminal ==
  /\ [](modal.isOpen /\ modal.currentStep = "downsell-accepted"
          => ~(ENABLED OtherControls))
  /\ [][ modal.isOpen /\ modal.currentStep = "downsell-accepted"
          => /\ modal'.currentStep = "downsell-accepted" \/ ~modal'.isOpen
             /\ last' # last
                  => last'.op \notin {"finalize_still_looking", "finalize_found_job"}
    ]_vars

\* C35: on the using step the accept-offer shortcut can be used exactly when the
\* arm is B and the offer is not accepted; for arm A, or once accepted,
\* acceptDownsell is not invoked from the using step (a state with room for one
\* more pending call is looked at)
C35_ShortcutOnlyForB ==
  /\ [](Ready /\ modal.currentStep = "using" /\ Len(inflight) < MaxInflight
          => (ENABLED AcceptOffer
                <=> modal.downsellVariant = "B" /\ ~modal.acceptedDownsell))
  /\ [][ AcceptPressed /\ modal.currentStep = "using"
          => modal.downsellVariant = "B" /\ ~modal.acceptedDownsell ]_vars

\* the using step of a user on arm A, no call pending: the shortcut is absent
C35_Witness ==
  /\ Ready /\ modal.currentStep = "using" /\ modal.cancellationId # 0
  /\ modal.downsellVariant = "A" /\ ~modal.acceptedDownsell

\* ---- Subscription status ----

\* C36: a subscription's status is changed only by assignArm, to
\* pending_cancellation, and by the two finalize operations, to cancelled; draft
\* saves, acceptDownsell, back, close and reopen leave every status as it was,
\* so a pending_cancellation status stays after the offer is accepted
C36_StatusFrame ==
  [][ \A i \in DOMAIN subscriptions :
        subscriptions'[i].status # subscriptions[i].status
          => \/ /\ last'.op = "assign"
                /\ subscriptions'[i].status = "pending_cancellation"
             \/ /\ last'.op \in {"finalize_found_job", "finalize_still_looking"}
                /\ subscriptions'[i].status = "cancelled" ]_vars

\* the offer has just been accepted and the record's subscription is still
\* pending_cancellation
C36_Witness ==
  /\ last.op = "accept_downsell" /\ last.ok
  /\ cancellations[last.cid].accepted_downsell = TRUE
  /\ subscriptions[cancellations[last.cid].subscription_id].status
       = "pending_cancellation"

\* ---- Repeated and concurrent calls ----

\* a finalize follows a successful finalize of the same kind with the same
\* record and arguments
FinalizeRepeated ==
  /\ last'.op \in {"finalize_found_job", "finalize_still_looking"}
  /\ last.op = last'.op /\ last.ok
  /\ last.target = last'.target /\ last.val = last'.val

\* C37: finalizeFoundJob and finalizeStillLooking are idempotent: the same call
\* made again right after a successful one succeeds too and leaves the
\* cancellation's fields and the subscription's status as the first call left
\* them
C37_FinalizeIdempotent ==
  [][ FinalizeRepeated
        => /\ last'.ok
           /\ cancellations' = cancellations
           /\ subscriptions' = subscriptions ]_vars

\* a finalize repeated on the same record has succeeded, the subscription is
\* cancelled
C37_Witness ==
  /\ last.op \in {"finalize_found_job", "finalize_still_looking"}
  /\ last.ok /\ last.again
  /\ cancellations[last.target].subscription_id # 0
  /\ subscriptions[cancellations[last.target].subscription_id].status = "cancelled"

\* C38: whatever way concurrent first-time assignArm calls for the same user
\* interleave, the user has one cancellation record afterwards and every call
\* returns that record and its arm: no user ever has two records, a committed
\* record never changes, and a successful call returns the user's record with
\* the arm stored in it
C38_ConcurrentSameUser ==
  /\ [](\A u \in Users :
         Cardinality({i \in DOMAIN cancellations : cancellations[i].user_id = u}) <= 1)
  /\ [](last.op = "assign" /\ last.ok
         => /\ last.cid \in DOMAIN cancellations
            /\ cancellations[last.cid].user_id = last.target
            /\ last.variant \in Variants
            /\ last.variant = cancellations[last.cid].downsell_variant)
  /\ [][ \A i \in DOMAIN cancellations :
           i \in DOMAIN cancellations' /\ cancellations'[i] = cancellations[i] ]_vars

\* a call that had to wait for the first call of the same user has come back
\* with the record the first call created, while another session is under way
C38_Witness ==
  /\ last.op = "assign" /\ last.ok /\ ~last.fresh
  /\ Cardinality({i \in DOMAIN cancellations :
                    cancellations[i].user_id = last.target}) = 1
  /\ \E q \in Procs : txn[q].pc # "idle"

\* ---- The subscription a session cancels ----

\* C39: the subscription a finalize drives to cancelled is the one assignArm
\* moved to pending_cancellation for the session, the user's most recent one:
\* when a successful finalize of the record follows the session's successful
\* assignArm, the user's most recent subscription is cancelled and none of the
\* user's subscriptions that was pending_cancellation is left so
C39_FinalizeCancelsLatest ==
  [][ /\ last.op = "assign" /\ last.ok
      /\ last'.op \in {"finalize_found_job", "finalize_still_looking"}
      /\ last'.ok /\ last'.target = last.cid
      => /\ subscriptions'[LatestSubOf(subscriptions, last.target)].status = "cancelled"
         /\ \A i \in DOMAIN subscriptions :
              subscriptions[i].user_id = last.target
                => subscriptions'[i].status # "pending_cancellation" ]_vars

\* ---- The accepted flag of a record ----

\* C40: through any sequence of wizard actions a cancellation's
\* accepted_downsell becomes true only when its arm is B and, once true, never
\* returns to false: no record of arm A is ever accepted
C40_AcceptedOnlyForB ==
  /\ [](\A i \in DOMAIN cancellations :
         cancellations[i].accepted_downsell = TRUE
           => cancellations[i].downsell_variant = "B")
  /\ [][ \A i \in DOMAIN cancellations :
           /\ cancellations[i].accepted_downsell = TRUE
                => cancellations'[i].accepted_downsell = TRUE
           /\ cancellations'[i].accepted_downsell # cancellations[i].accepted_downsell
                => last'.op = "accept_downsell" /\ last'.ok /\ last'.cid = i ]_vars

\* the user's record of arm B is accepted and a later draft save has succeeded
\* on it
C40_Witness ==
  /\ modal.cancellationId # 0
  /\ cancellations[modal.cancellationId].accepted_downsell = TRUE
  /\ cancellations[modal.cancellationId].downsell_variant = "B"
  /\ last.op \in {"save_draft", "autosave"} /\ last.ok
  /\ last.target = modal.cancellationId

====
